---- MODULE Spec2Model ----
(***************************************************************************)
(* Model of the admin console: the toast notification layer               *)
(* (utils/notify.ts), the notice store (stores/notice) and the list views  *)
(* (views/admin/*.vue).                                                    *)
(*                                                                         *)
(* A JavaScript string is a sequence of characters; a character is a       *)
(* one-element TLA+ string, and a character outside ASCII is written by    *)
(* its code point ("U+FF1A" is the full-width colon; the backtick and the  *)
(* apostrophe are "U+0060" and "U+0027").                                   *)
(***************************************************************************)
EXTENDS Integers, Sequences, FiniteSets, Bags, TLC

(***************************************************************************)
(* Text normalisation                                                      *)
(***************************************************************************)

\* the characters String.prototype.trim removes and the regex class \s matches
WhiteSpace == {" ", "\t", "\n", "U+3000"}

UpperCase ==
  <<"A", "B", "C", "D", "E", "F", "G", "H", "I", "J", "K", "L", "M",
    "N", "O", "P", "Q", "R", "S", "T", "U", "V", "W", "X", "Y", "Z">>

LowerCase ==
  <<"a", "b", "c", "d", "e", "f", "g", "h", "i", "j", "k", "l", "m",
    "n", "o", "p", "q", "r", "s", "t", "u", "v", "w", "x", "y", "z">>

\* String.prototype.toLowerCase on one character
toLowerCaseMap ==
  [c \in {UpperCase[i] : i \in 1..Len(UpperCase)} |->
     LowerCase[CHOOSE i \in 1..Len(UpperCase) : UpperCase[i] = c]]

toLowerCaseChar(c) == IF c \in DOMAIN toLowerCaseMap THEN toLowerCaseMap[c] ELSE c

toLowerCase(s) == [i \in 1..Len(s) |-> toLowerCaseChar(s[i])]

RECURSIVE trimStart(_)
trimStart(s) ==
  IF s = <<>> THEN <<>>
  ELSE IF Head(s) \in WhiteSpace THEN trimStart(Tail(s)) ELSE s

RECURSIVE trimEnd(_)
trimEnd(s) ==
  IF s = <<>> THEN <<>>
  ELSE IF s[Len(s)] \in WhiteSpace THEN trimEnd(SubSeq(s, 1, Len(s) - 1)) ELSE s

\* String.prototype.trim
trim(s) == trimEnd(trimStart(s))

\* String.prototype.includes: needle occurs in hay as a contiguous substring
includes(hay, needle) ==
  \E i \in 0..(Len(hay) - Len(needle)) : SubSeq(hay, i + 1, i + Len(needle)) = needle

\* the alternatives of the leading group of the failure-prefix regex
FailurePrefixes ==
  { <<"U+64CD", "U+4F5C", "U+5931", "U+8D25">>,
    <<"U+8ACB", "U+6C42", "U+5931", "U+6557">>,
    <<"U+8BF7", "U+6C42", "U+5931", "U+8D25">>,
    <<"U+63D0", "U+4EA4", "U+5931", "U+8D25">>,
    <<"U+4FDD", "U+5B58", "U+5931", "U+8D25">>,
    <<"U+5220", "U+9664", "U+5931", "U+8D25">>,
    <<"U+66F4", "U+65B0", "U+5931", "U+8D25">>,
    <<"U+521B", "U+5EFA", "U+5931", "U+8D25">>,
    <<"U+4E0A", "U+50B3", "U+5931", "U+6557">>,
    <<"U+4E0A", "U+4F20", "U+5931", "U+8D25">>,
    <<"o", "p", "e", "r", "a", "t", "i", "o", "n", " ", "f", "a", "i", "l", "e", "d">>,
    <<"r", "e", "q", "u", "e", "s", "t", " ", "f", "a", "i", "l", "e", "d">> }

\* the class [:：\-] that must follow the prefix
PrefixSeparators == {":", "U+FF1A", "-"}

\* the character class of the global replace, \s apart
Punctuation ==
  { "U+0060", "~", "!", "@", "#", "$", "%", "^", "&", "*", "(", ")", "_", "+", "-",
    "=", "[", "]", "{", "}", ";", "U+0027", ":", "\"", "\\", "|", ",", ".", "<", ">",
    "/", "?",
    "U+FF0C", "U+3002", "U+FF01", "U+FF1F", "U+FF1B", "U+FF1A", "U+3001",
    "U+201C", "U+201D", "U+2018", "U+2019", "U+FF08", "U+FF09", "U+3010",
    "U+3011", "U+300A", "U+300B", "U+00B7", "U+2026", "U+2014" }

\* value starts with prefix p, compared without regard to case (flag i)
startsWithIgnoreCase(value, p) ==
  /\ Len(value) >= Len(p)
  /\ \A i \in 1..Len(p) : toLowerCaseChar(value[i]) = toLowerCaseChar(p[i])

\* what follows prefix p in value, when /^(p)\s*[:：\-]/i matches at its start
afterPrefix(value, p) == trimStart(SubSeq(value, Len(p) + 1, Len(value)))

prefixMatches(value, p) ==
  /\ startsWithIgnoreCase(value, p)
  /\ afterPrefix(value, p) # <<>>
  /\ Head(afterPrefix(value, p)) \in PrefixSeparators

\* /^(prefix)\s*[:：\-]\s*/i matches at the start of value
matchesFailurePrefix(value) == \E p \in FailurePrefixes : prefixMatches(value, p)

\* value.replace(/^(prefix)\s*[:：\-]\s*/i, '')
stripFailurePrefix(value) ==
  IF matchesFailurePrefix(value)
  THEN LET p == CHOOSE q \in FailurePrefixes : prefixMatches(value, q)
       IN  trimStart(Tail(afterPrefix(value, p)))
  ELSE value

\* value.replace(/[\s...punctuation...]/g, '')
stripPunctuation(s) == SelectSeq(s, LAMBDA c : c \notin WhiteSpace /\ c \notin Punctuation)

\* notify.ts simplifyMessage
simplifyMessage(input) ==
  LET value == trim(input)
  IN  IF value = <<>> THEN <<>>
      ELSE stripPunctuation(toLowerCase(stripFailurePrefix(value)))

\* simplifyNoticeMessage without toLowerCase
simplifyNoticeMessage_KeepCase(input) ==
  LET value == trim(input)
  IN  IF value = <<>> THEN <<>>
      ELSE stripPunctuation(stripFailurePrefix(value))

\* stores/notice simplifyNoticeMessage; String(input || '') is input for a string
simplifyNoticeMessage(input) ==
  LET value == trim(input)
  IN  IF value = <<>> THEN <<>>
      ELSE stripPunctuation(toLowerCase(stripFailurePrefix(value)))


(***************************************************************************)
(* State                                                                   *)
(***************************************************************************)

VARIABLES
  now,             \* the value Date.now() returns, in milliseconds
  lastMessage,     \* notify.ts module state
  lastNormalized,
  lastType,
  lastAt,
  items,           \* notice store: the visible notices, oldest first
  timerMap,        \* notice store: notice id -> time at which its timeout is due
  sequence,        \* notice store: the last id handed out
  pushed,          \* history: the latest non-blank push, what became of it, and since
                   \* when pushes of its type and text have followed one another at
                   \* most 1500 ms apart
  text,            \* a message text handed to the two normalisers
  core,            \* simplifyMessage(text)
  noticeCore,      \* simplifyNoticeMessage(text)
  edits,           \* history: the number of edits made to text
  routeUserId,     \* orders view: route.query.user_id
  mounted,         \* orders view: onMounted has run
  loading,         \* orders view: the refs and reactive objects of the script
  orders,
  pagination,
  jumpPage,
  filters,
  statusEdits,
  requests,        \* adminAPI.getOrders calls awaiting their response, oldest first
  outcome,         \* history: how the latest answered getOrders call ended, whether its
                   \* response had a pagination object, whether it left the
                   \* pagination as it was when the call was made, and what the view
                   \* showed once the most recently made call was answered
  filterEdits,     \* history: the number of filter changes made
  routeOrderId,    \* orders view: route.query.order_id
  showDetail,      \* orders view: the refs of the two dialogs
  showFulfillmentModal,
  selectedOrder,
  detailLoading,
  detailError,
  fulfillmentParentId,
  fulfillmentForm,
  fulfillmentSubmitting,
  fulfillmentError,
  fulfillmentSuccess,
  detailRequests,  \* adminAPI.getOrder calls awaiting their response, a bag, each
                   \* with what awaits it
  fulfillmentRequests, \* adminAPI.createFulfillment calls awaiting their response
  submission,      \* history: the order openFulfillment was last called for, and
                   \* the number of createFulfillment calls made
  usersMounted,    \* users view: onMounted has run
  users,           \* users view: the refs of the script; loading, pagination and
  selectedIds,     \* error are named after the view here
  usersLoading,
  usersPagination,
  usersError,
  userRequests,    \* adminAPI.getUsers calls awaiting their response, a bag
  confirmations,   \* confirmAction calls awaiting their answer, a bag, each with the
                   \* selection at the time of the call
  batchRequests,   \* adminAPI.batchUpdateUserStatus calls awaiting their response,
                   \* each with the selection at the time its confirmation was asked
  couponsMounted,  \* coupons view: onMounted has run
  couponRoute,     \* coupons view: route.query.id
  couponFilters,   \* coupons view: the refs and reactive objects of the script;
  autoOpenId,      \* filters, coupons' loading, pagination and error are named
  coupons,         \* after the view here
  couponsLoading,
  couponsPagination,
  showModal,
  couponsError,
  isEditing,
  editingId,
  form,
  couponRequests,  \* adminAPI.getCoupons calls awaiting their response, a bag
  submitRequests,  \* adminAPI.updateCoupon and createCoupon calls awaiting their
                   \* response
  statusRequests,  \* orders view: adminAPI.updateOrderStatus calls awaiting their
                   \* response
  loginMounted,    \* login view: onMounted has run
  username,        \* login view: the refs of the script; error is named after the
  password,        \* view here
  loginError,
  loadingCaptcha,
  captchaConfig,
  captchaPayload,
  turnstileToken,
  configRequests,  \* adminAPI.getPublicConfig calls awaiting their response, a number
  loginRequests,   \* authStore.login calls awaiting their response
  route,           \* login view: the path the router was last pushed to
  settingsMounted, \* settings view: onMounted has run
  settingsLoading, \* settings view: loading and the reactive forms; form is named
  siteForm,        \* after its content here
  smtpForm,
  captchaForm,
  dashboardForm,
  settingsFetch,   \* the four calls of fetchSettings: what each was answered with,
                   \* and whether the Promise.all of them is settled
  saveRequests,    \* adminAPI.updateSettings calls awaiting their response
  dashboardEdits,  \* history: the number of edits made to the dashboard form
  passwordForm,    \* settings view: the reactive form of the security tab
  adminToken,      \* whether localStorage holds an admin_token
  location,        \* window.location.href, as a path
  passwordConfirmations, \* confirmAction calls of changePassword awaiting their answer
  passwordRequests \* adminAPI.updatePassword calls awaiting their response

noticeVars == <<now, lastMessage, lastNormalized, lastType, lastAt,
                items, timerMap, sequence, pushed>>

textVars == <<text, core, noticeCore, edits>>

listVars == <<routeUserId, mounted, loading, orders, pagination, jumpPage, filters,
              statusEdits, requests, outcome, filterEdits>>

detailVars == <<routeOrderId, showDetail, showFulfillmentModal, selectedOrder, detailLoading,
                detailError, fulfillmentParentId, fulfillmentForm, fulfillmentSubmitting,
                fulfillmentError, fulfillmentSuccess, detailRequests, fulfillmentRequests,
                submission>>

usersVars == <<usersMounted, users, selectedIds, usersLoading, usersPagination, usersError,
               userRequests, confirmations, batchRequests>>

couponVars == <<couponsMounted, couponRoute, couponFilters, autoOpenId, coupons,
                couponsLoading, couponsPagination, showModal, couponsError, isEditing,
                editingId, form, couponRequests, submitRequests>>

statusVars == <<statusRequests>>

\* the state of the handlers that follow the three views
loginVars == <<loginMounted, username, password, loginError, loadingCaptcha, captchaConfig,
               captchaPayload, turnstileToken, configRequests, loginRequests, route>>

settingsVars == <<settingsMounted, settingsLoading, siteForm, smtpForm, captchaForm,
                  dashboardForm, settingsFetch, saveRequests, dashboardEdits>>

passwordVars == <<passwordForm, adminToken, location, passwordConfirmations,
                  passwordRequests>>

restVars == <<statusVars, loginVars, settingsVars, passwordVars>>

viewVars == <<detailVars, usersVars, couponVars, restVars>>

\* what the handlers of the list and the dialogs of the orders view leave alone
outsideOrders == <<noticeVars, textVars, usersVars, couponVars, restVars>>

\* what the handlers of the users view leave alone
outsideUsers == <<noticeVars, textVars, listVars, detailVars, couponVars, restVars>>

\* what the handlers of the coupons view leave alone
outsideCoupons == <<noticeVars, textVars, listVars, detailVars, usersVars, restVars>>

\* what the handlers of the status of an order leave alone
outsideStatus == <<noticeVars, textVars, detailVars, usersVars, couponVars, loginVars,
                   settingsVars, passwordVars>>

\* what the handlers of the login view leave alone
outsideLogin == <<noticeVars, textVars, listVars, detailVars, usersVars, couponVars,
                  statusVars, settingsVars, passwordVars>>

\* what the handlers of the settings view leave alone, the notices excepted
outsideSettings == <<textVars, listVars, detailVars, usersVars, couponVars, statusVars,
                     loginVars>>

vars == <<noticeVars, textVars, listVars, viewVars>>

nonNoticeVars == <<textVars, listVars, viewVars>>

(***************************************************************************)
(* Bounds and inputs of the notification model                             *)
(***************************************************************************)

StartTime == 10000      \* Date.now() when the page is loaded
MaxElapsed == 1501      \* the clock is followed this long
MaxSequence == 2        \* notices created
MaxPushes == 3          \* calls of notifyError/notifySuccess/notifyInfo

TickSteps == {1500, 1501}

MaxStreamElapsed == 3000    \* the clock is followed this long under a stream of pushes

StreamSteps == {1000, 1500}

NoticeTypes == {"error", "success", "info"}

MsgOk == <<"o", "k">>
MsgOkPrefixed ==
  <<"R", "e", "q", "u", "e", "s", "t", " ", "f", "a", "i", "l", "e", "d", ":", " ", "O", "K", "!">>
MsgOkNow == <<" ", "o", "k", " ", "n", "o", "w", " ">>
MsgMarks == <<"!", "!">>
MsgBlank == <<" ", " ">>

Messages == {MsgOk, MsgOkPrefixed, MsgOkNow, MsgMarks, MsgBlank}

MsgSaved == <<"s", "a", "v", "e", "d">>

\* the messages direct callers of the store show
StoreMessages == Messages \cup {MsgSaved}

Durations == {0, 1500}

MaxBurst == 6           \* notices created in a burst

\* the messages of a burst: marks only, which are similar to nothing
BurstMessages == {MsgMarks}

\* the durations of a burst: none, a negative one, and a second and a half
BurstDurations == {-1, 0, 1500}

(***************************************************************************)
(* notify.ts                                                               *)
(***************************************************************************)

dedupeWindowMs == 1500

\* i18n.global.t(key): the translation of a key is some non-blank text; it is
\* kept symbolic, one token per key
t(key) == <<key>>

\* shouldSkip with the window bound excluded
shouldSkip_StrictWindow(type, content) ==
  LET normalized == trim(content)
  IN  IF normalized = <<>>
      THEN [duplicated |-> FALSE, lastType |-> lastType, lastMessage |-> lastMessage,
            lastNormalized |-> lastNormalized, lastAt |-> lastAt]
      ELSE LET normalizedCore == simplifyMessage(normalized)
               withinWindow == now - lastAt < dedupeWindowMs
               sameType == lastType = type
               duplicatedExact == sameType /\ lastMessage = normalized /\ withinWindow
               duplicatedNormalized ==
                 sameType /\ normalizedCore # <<>> /\ lastNormalized = normalizedCore /\ withinWindow
               duplicatedSimilar ==
                 /\ sameType
                 /\ normalizedCore # <<>>
                 /\ lastNormalized # <<>>
                 /\ withinWindow
                 /\ (includes(normalizedCore, lastNormalized) \/ includes(lastNormalized, normalizedCore))
           IN  [duplicated |-> duplicatedExact \/ duplicatedNormalized \/ duplicatedSimilar,
                lastType |-> type, lastMessage |-> normalized,
                lastNormalized |-> normalizedCore, lastAt |-> now]

\* shouldSkip that leaves its record as it is when it reports a duplicate
shouldSkip_KeepsRecordOnDrop(type, content) ==
  LET normalized == trim(content)
  IN  IF normalized = <<>>
      THEN [duplicated |-> FALSE, lastType |-> lastType, lastMessage |-> lastMessage,
            lastNormalized |-> lastNormalized, lastAt |-> lastAt]
      ELSE LET normalizedCore == simplifyMessage(normalized)
               withinWindow == now - lastAt <= dedupeWindowMs
               sameType == lastType = type
               duplicatedExact == sameType /\ lastMessage = normalized /\ withinWindow
               duplicatedNormalized ==
                 sameType /\ normalizedCore # <<>> /\ lastNormalized = normalizedCore /\ withinWindow
               duplicatedSimilar ==
                 /\ sameType
                 /\ normalizedCore # <<>>
                 /\ lastNormalized # <<>>
                 /\ withinWindow
                 /\ (includes(normalizedCore, lastNormalized) \/ includes(lastNormalized, normalizedCore))
               duplicated == duplicatedExact \/ duplicatedNormalized \/ duplicatedSimilar
           IN  IF duplicated
               THEN [duplicated |-> TRUE, lastType |-> lastType, lastMessage |-> lastMessage,
                     lastNormalized |-> lastNormalized, lastAt |-> lastAt]
               ELSE [duplicated |-> FALSE, lastType |-> type, lastMessage |-> normalized,
                     lastNormalized |-> normalizedCore, lastAt |-> now]

\* shouldSkip without the time window
shouldSkip_NoWindow(type, content) ==
  LET normalized == trim(content)
  IN  IF normalized = <<>>
      THEN [duplicated |-> FALSE, lastType |-> lastType, lastMessage |-> lastMessage,
            lastNormalized |-> lastNormalized, lastAt |-> lastAt]
      ELSE LET normalizedCore == simplifyMessage(normalized)
               withinWindow == TRUE
               sameType == lastType = type
               duplicatedExact == sameType /\ lastMessage = normalized /\ withinWindow
               duplicatedNormalized ==
                 sameType /\ normalizedCore # <<>> /\ lastNormalized = normalizedCore /\ withinWindow
               duplicatedSimilar ==
                 /\ sameType
                 /\ normalizedCore # <<>>
                 /\ lastNormalized # <<>>
                 /\ withinWindow
                 /\ (includes(normalizedCore, lastNormalized) \/ includes(lastNormalized, normalizedCore))
           IN  [duplicated |-> duplicatedExact \/ duplicatedNormalized \/ duplicatedSimilar,
                lastType |-> type, lastMessage |-> normalized,
                lastNormalized |-> normalizedCore, lastAt |-> now]

\* shouldSkip returns duplicated and assigns the four module variables
shouldSkip(type, content) ==
  LET normalized == trim(content)
  IN  IF normalized = <<>>
      THEN [duplicated |-> FALSE, lastType |-> lastType, lastMessage |-> lastMessage,
            lastNormalized |-> lastNormalized, lastAt |-> lastAt]
      ELSE LET normalizedCore == simplifyMessage(normalized)
               withinWindow == now - lastAt <= dedupeWindowMs
               sameType == lastType = type
               duplicatedExact == sameType /\ lastMessage = normalized /\ withinWindow
               duplicatedNormalized ==
                 sameType /\ normalizedCore # <<>> /\ lastNormalized = normalizedCore /\ withinWindow
               duplicatedSimilar ==
                 /\ sameType
                 /\ normalizedCore # <<>>
                 /\ lastNormalized # <<>>
                 /\ withinWindow
                 /\ (includes(normalizedCore, lastNormalized) \/ includes(lastNormalized, normalizedCore))
           IN  [duplicated |-> duplicatedExact \/ duplicatedNormalized \/ duplicatedSimilar,
                lastType |-> type, lastMessage |-> normalized,
                lastNormalized |-> normalizedCore, lastAt |-> now]

(***************************************************************************)
(* stores/notice                                                           *)
(***************************************************************************)

\* remove that leaves the timeout of the notice pending
remove_KeepTimer(its, tm, id) ==
  [items |-> SelectSeq(its, LAMBDA item : item.id # id),
   timerMap |-> tm]

\* remove(id) applied to a list of notices and a timer map
remove(its, tm, id) ==
  [items |-> SelectSeq(its, LAMBDA item : item.id # id),
   timerMap |-> [i \in DOMAIN tm \ {id} |-> tm[i]]]

\* hasSimilarVisibleNotice comparing for equality only
hasSimilarVisibleNotice_ExactOnly(kind, message) ==
  LET current == simplifyNoticeMessage(message)
  IN  IF current = <<>> THEN FALSE
      ELSE \E n \in 1..Len(items) :
             LET item == items[n]
                 existing == simplifyNoticeMessage(item.message)
             IN  /\ item.type = kind
                 /\ existing # <<>>
                 /\ existing = current

\* hasSimilarVisibleNotice without the comparison of types
hasSimilarVisibleNotice_AnyType(kind, message) ==
  LET current == simplifyNoticeMessage(message)
  IN  IF current = <<>> THEN FALSE
      ELSE \E n \in 1..Len(items) :
             LET item == items[n]
                 existing == simplifyNoticeMessage(item.message)
             IN  /\ existing # <<>>
                 /\ (existing = current \/ includes(existing, current) \/ includes(current, existing))

hasSimilarVisibleNotice(kind, message) ==
  LET current == simplifyNoticeMessage(message)
  IN  IF current = <<>> THEN FALSE
      ELSE \E n \in 1..Len(items) :
             LET item == items[n]
                 existing == simplifyNoticeMessage(item.message)
             IN  /\ item.type = kind
                 /\ existing # <<>>
                 /\ (existing = current \/ includes(existing, current) \/ includes(current, existing))

\* overflow.forEach((item) => remove(item.id))
RECURSIVE removeAll(_, _, _)
removeAll(its, tm, overflow) ==
  IF overflow = <<>> THEN [items |-> its, timerMap |-> tm]
  ELSE LET r == remove(its, tm, Head(overflow).id)
       IN  removeAll(r.items, r.timerMap, Tail(overflow))

\* show(msg, kind, duration): the store after the call
show_KeepsOverflow(msg, kind, duration) ==
  LET message == trim(msg)
      same == [items |-> items, timerMap |-> timerMap, sequence |-> sequence]
  IN  IF message = <<>> THEN same
      ELSE IF hasSimilarVisibleNotice(kind, message) THEN same
      ELSE LET id == sequence + 1
           IN  [items |-> Append(items, [id |-> id, message |-> message, type |-> kind]),
                timerMap |-> IF duration > 0
                             THEN [i \in DOMAIN timerMap \cup {id} |->
                                     IF i = id THEN now + duration ELSE timerMap[i]]
                             ELSE timerMap,
                sequence |-> id]

show(msg, kind, duration) ==
  LET message == trim(msg)
      same == [items |-> items, timerMap |-> timerMap, sequence |-> sequence]
  IN  IF message = <<>> THEN same
      ELSE IF hasSimilarVisibleNotice(kind, message) THEN same
      ELSE LET id == sequence + 1
               pushedItems == Append(items, [id |-> id, message |-> message, type |-> kind])
               timers == IF duration > 0
                         THEN [i \in DOMAIN timerMap \cup {id} |->
                                 IF i = id THEN now + duration ELSE timerMap[i]]
                         ELSE timerMap
               kept == IF Len(pushedItems) > 5
                       THEN removeAll(pushedItems, timers, SubSeq(pushedItems, 1, Len(pushedItems) - 5))
                       ELSE [items |-> pushedItems, timerMap |-> timers]
           IN  [items |-> kept.items, timerMap |-> kept.timerMap, sequence |-> id]

(***************************************************************************)
(* Actions of the notification model                                       *)
(***************************************************************************)

\* pushNotice(message, type, fallbackKey), as a handler calls it
pushNoticeCall(message, type, fallbackKey) ==
  /\ pushed.n < MaxPushes
  /\ \E content \in {IF trim(message) # <<>> THEN message ELSE t(fallbackKey)} :
     \E skip \in {shouldSkip(type, content)} :
     \E store \in {IF skip.duplicated
                    THEN [items |-> items, timerMap |-> timerMap, sequence |-> sequence]
                    ELSE show(content, type, 6000)} :
         /\ lastType' = skip.lastType
         /\ lastMessage' = skip.lastMessage
         /\ lastNormalized' = skip.lastNormalized
         /\ lastAt' = skip.lastAt
         /\ items' = store.items
         /\ timerMap' = store.timerMap
         /\ sequence' = store.sequence
         /\ pushed' = IF trim(content) = <<>> THEN pushed
                      ELSE [n |-> pushed.n + 1, type |-> type, text |-> trim(content),
                            at |-> now, dropped |-> skip.duplicated,
                            since |-> IF /\ pushed.n >= 1
                                         /\ pushed.type = type
                                         /\ pushed.text = trim(content)
                                         /\ now - pushed.at <= 1500
                                      THEN pushed.since
                                      ELSE now]

\* pushNotice(message, type, fallbackKey), called on its own
pushNotice(message, type, fallbackKey) ==
  /\ pushNoticeCall(message, type, fallbackKey)
  /\ UNCHANGED now
  /\ UNCHANGED nonNoticeVars

notifyError == \E message \in Messages : pushNotice(message, "error", "common.api.requestFailed")

notifySuccess == \E message \in Messages : pushNotice(message, "success", "admin.common.operationSuccess")

notifyInfo == \E message \in Messages : pushNotice(message, "info", "admin.common.notice")

\* a direct call of the store's show
Show ==
  /\ sequence < MaxSequence
  /\ \E msg \in StoreMessages, kind \in NoticeTypes, duration \in Durations :
       \E store \in {show(msg, kind, duration)} :
           /\ items' = store.items
           /\ timerMap' = store.timerMap
           /\ sequence' = store.sequence
  /\ UNCHANGED <<now, lastMessage, lastNormalized, lastType, lastAt, pushed>>
  /\ UNCHANGED nonNoticeVars

\* direct calls of the store's show in a burst
ShowBurst ==
  /\ sequence < MaxBurst
  /\ \E msg \in BurstMessages, duration \in BurstDurations :
       \E store \in {show(msg, "info", duration)} :
           /\ items' = store.items
           /\ timerMap' = store.timerMap
           /\ sequence' = store.sequence
  /\ UNCHANGED <<now, lastMessage, lastNormalized, lastType, lastAt, pushed>>
  /\ UNCHANGED nonNoticeVars

\* a direct call of the store's remove, as the close button of a notice makes
Remove ==
  /\ \E n \in 1..Len(items) :
       LET r == remove(items, timerMap, items[n].id)
       IN  items' = r.items /\ timerMap' = r.timerMap
  /\ UNCHANGED <<now, lastMessage, lastNormalized, lastType, lastAt, sequence, pushed>>
  /\ UNCHANGED nonNoticeVars

Clear ==
  /\ items # <<>>
  /\ LET r == remove(items, timerMap, items[1].id)
     IN  items' = r.items /\ timerMap' = r.timerMap
  /\ UNCHANGED <<now, lastMessage, lastNormalized, lastType, lastAt, sequence, pushed>>
  /\ UNCHANGED nonNoticeVars

ClearAll ==
  /\ items # <<>>
  /\ items' = <<>>
  /\ timerMap' = << >>
  /\ UNCHANGED <<now, lastMessage, lastNormalized, lastType, lastAt, sequence, pushed>>
  /\ UNCHANGED nonNoticeVars

\* the callback window.setTimeout was given in show runs, not before it is due
TimerExpires_RemovesHead ==
  /\ \E id \in DOMAIN timerMap :
       /\ now >= timerMap[id]
       /\ LET r == remove(items, timerMap, Head(items).id)
          IN  items' = r.items /\ timerMap' = r.timerMap
  /\ UNCHANGED <<now, lastMessage, lastNormalized, lastType, lastAt, sequence, pushed>>
  /\ UNCHANGED nonNoticeVars

TimerExpires ==
  /\ \E id \in DOMAIN timerMap :
       /\ now >= timerMap[id]
       /\ LET r == remove(items, timerMap, id)
          IN  items' = r.items /\ timerMap' = r.timerMap
  /\ UNCHANGED <<now, lastMessage, lastNormalized, lastType, lastAt, sequence, pushed>>
  /\ UNCHANGED nonNoticeVars

\* time passes
\* the timers that are not due yet
Waiting == {id \in DOMAIN timerMap : now < timerMap[id]}

\* time passes until the next timer is due
TickDue ==
  /\ Waiting # {}
  /\ \E id \in Waiting :
       /\ \A other \in Waiting : timerMap[id] <= timerMap[other]
       /\ now' = timerMap[id]
  /\ UNCHANGED <<lastMessage, lastNormalized, lastType, lastAt, items, timerMap, sequence, pushed>>
  /\ UNCHANGED nonNoticeVars

Tick ==
  /\ \E d \in TickSteps :
       /\ now + d <= StartTime + MaxElapsed
       /\ now' = now + d
  /\ UNCHANGED <<lastMessage, lastNormalized, lastType, lastAt, items, timerMap, sequence, pushed>>
  /\ UNCHANGED nonNoticeVars

\* time passes between the pushes of a stream
TickStream ==
  /\ \E d \in StreamSteps :
       /\ now + d <= StartTime + MaxStreamElapsed
       /\ now' = now + d
  /\ UNCHANGED <<lastMessage, lastNormalized, lastType, lastAt, items, timerMap, sequence, pushed>>
  /\ UNCHANGED nonNoticeVars

NoticeInit ==
  /\ now = StartTime
  /\ lastMessage = <<>>
  /\ lastNormalized = <<>>
  /\ lastType = ""
  /\ lastAt = 0
  /\ items = <<>>
  /\ timerMap = << >>
  /\ sequence = 0
  /\ pushed = [n |-> 0, type |-> "", text |-> <<>>, at |-> 0, dropped |-> FALSE, since |-> 0]

(***************************************************************************)
(* The normalisers applied to texts that differ by one edit                *)
(***************************************************************************)

MaxEdits == 2           \* edits made to a text

BaseTexts == {MsgOk, <<"N", "o", "!">>}

\* the whitespace and punctuation an edit inserts
EditChars == {" ", "-"}

\* what an edit puts between a prepended failure prefix and the text
Glues == {<<":", " ">>, <<" ", "U+FF1A">>, <<"-">>}

toUpperCaseMap ==
  [c \in {LowerCase[i] : i \in 1..Len(LowerCase)} |->
     UpperCase[CHOOSE i \in 1..Len(LowerCase) : LowerCase[i] = c]]

IsLetter(c) == c \in DOMAIN toLowerCaseMap \/ c \in DOMAIN toUpperCaseMap

swapCase(c) ==
  IF c \in DOMAIN toLowerCaseMap THEN toLowerCaseMap[c]
  ELSE IF c \in DOMAIN toUpperCaseMap THEN toUpperCaseMap[c]
  ELSE c

\* both normalisers are applied to the edited text
Normalise(edited) ==
  /\ edits < MaxEdits
  /\ edits' = edits + 1
  /\ text' = edited
  /\ core' = simplifyMessage(edited)
  /\ noticeCore' = simplifyNoticeMessage(edited)
  /\ UNCHANGED <<noticeVars, listVars, viewVars>>

\* the case of one letter changes
EditCase ==
  \E i \in 1..Len(text) :
    /\ IsLetter(text[i])
    /\ Normalise([text EXCEPT ![i] = swapCase(text[i])])

\* one whitespace or punctuation character is inserted
EditInsert ==
  \E i \in 0..Len(text), c \in EditChars :
    Normalise(SubSeq(text, 1, i) \o <<c>> \o SubSeq(text, i + 1, Len(text)))

\* one whitespace or punctuation character is deleted
EditDelete ==
  \E i \in 1..Len(text) :
    /\ text[i] \in WhiteSpace \cup Punctuation
    /\ Normalise(SubSeq(text, 1, i - 1) \o SubSeq(text, i + 1, Len(text)))

\* a failure prefix followed by a colon or dash is put in front
EditPrepend ==
  \E p \in FailurePrefixes, glue \in Glues : Normalise(p \o glue \o text)

TextInit ==
  /\ text \in BaseTexts
  /\ core = simplifyMessage(text)
  /\ noticeCore = simplifyNoticeMessage(text)
  /\ edits = 0

\* no text has been handed to the normalisers
TextIdle ==
  /\ text = <<>>
  /\ core = <<>>
  /\ noticeCore = <<>>
  /\ edits = 0

(***************************************************************************)
(* JavaScript numbers as the pager uses them                               *)
(***************************************************************************)

\* a number is NaN, an infinity or the fraction num / den with den a power of ten
NaN == [kind |-> "NaN", num |-> 0, den |-> 1]

Infinity(sign) ==
  [kind |-> IF sign < 0 THEN "-Infinity" ELSE "Infinity", num |-> 0, den |-> 1]

Finite(num, den) == [kind |-> "finite", num |-> num, den |-> den]

DigitChars == <<"0", "1", "2", "3", "4", "5", "6", "7", "8", "9">>

IsDigit(c) == \E i \in DOMAIN DigitChars : DigitChars[i] = c

digitValue(c) == (CHOOSE i \in DOMAIN DigitChars : DigitChars[i] = c) - 1

RECURSIVE digitsValue(_)
digitsValue(ds) ==
  IF ds = <<>> THEN 0
  ELSE 10 * digitsValue(SubSeq(ds, 1, Len(ds) - 1)) + digitValue(ds[Len(ds)])

RECURSIVE pow10(_)
pow10(n) == IF n = 0 THEN 1 ELSE 10 * pow10(n - 1)

InfinityLiteral == <<"I", "n", "f", "i", "n", "i", "t", "y">>

\* digits with at most one decimal point and at least one digit
IsDecimalLiteral(body) ==
  /\ \A i \in DOMAIN body : IsDigit(body[i]) \/ body[i] = "."
  /\ \E i \in DOMAIN body : IsDigit(body[i])
  /\ Cardinality({i \in DOMAIN body : body[i] = "."}) <= 1

\* Number(string): surrounding white space is ignored, the empty string is 0,
\* a signed decimal literal or a signed Infinity is its value and anything
\* else is NaN (exponents and radix prefixes are not among the inputs)
Number(value) ==
  LET str == trim(value)
  IN  IF str = <<>> THEN Finite(0, 1)
      ELSE LET signed == Head(str) \in {"+", "-"}
               sign == IF Head(str) = "-" THEN -1 ELSE 1
               body == IF signed THEN Tail(str) ELSE str
               dots == {i \in DOMAIN body : body[i] = "."}
               fractionDigits ==
                 IF dots = {} THEN 0 ELSE Len(body) - (CHOOSE i \in dots : TRUE)
           IN  IF body = InfinityLiteral THEN Infinity(sign)
               ELSE IF IsDecimalLiteral(body)
               THEN Finite(sign * digitsValue(SelectSeq(body, IsDigit)), pow10(fractionDigits))
               ELSE NaN

isNaN(x) == x.kind = "NaN"

LessThan(a, b) ==
  \/ a.kind = "-Infinity" /\ b.kind # "-Infinity"
  \/ b.kind = "Infinity" /\ a.kind # "Infinity"
  \/ a.kind = "finite" /\ b.kind = "finite" /\ a.num * b.den < b.num * a.den

MathFloor(x) == IF x.kind = "finite" THEN Finite(x.num \div x.den, 1) ELSE x

MathMax(a, b) ==
  IF isNaN(a) \/ isNaN(b) THEN NaN ELSE IF LessThan(a, b) THEN b ELSE a

MathMin(a, b) ==
  IF isNaN(a) \/ isNaN(b) THEN NaN ELSE IF LessThan(b, a) THEN b ELSE a

(***************************************************************************)
(* views/admin/Orders.vue: the list, its filters and its pager             *)
(***************************************************************************)

\* the number of getOrders calls that may await their response at once
MaxInFlight == 2

\* the number of times a filter is changed, by its control or by the route
MaxFilterEdits == 1

undefined == <<"undefined">>

AllSentinel == <<"_", "_", "a", "l", "l", "_", "_">>

StatusPaid == <<"p", "a", "i", "d">>

UserSeven == <<"7">>

OrderNo == <<"N", "1">>

GuestEmail == <<"a", "@", "b">>

CreatedFrom ==
  <<"2", "0", "2", "4", "-", "0", "1", "-", "0", "1", "T", "0", "0", ":", "0", "0">>

CreatedTo ==
  <<"2", "0", "2", "4", "-", "0", "2", "-", "0", "1", "T", "0", "0", ":", "0", "0">>

\* what the filter controls can be set to: the field and its new value
FilterInputs ==
  { <<"status", AllSentinel>>, <<"status", StatusPaid>>,
    <<"userId", UserSeven>>,
    <<"orderNo", OrderNo>>,
    <<"guestEmail", GuestEmail>>,
    <<"createdFrom", CreatedFrom>>,
    <<"createdTo", CreatedTo>> }

\* route.query.user_id: missing, or a text
UserIdQueries == {undefined, <<" ", "7">>}

\* what can be typed into the jump input
JumpInputs ==
  { <<>>, <<"a", "b", "c">>, <<"0">>, <<"2">>, <<"2", ".", "7">>, <<"-", "3">>,
    <<"9", "9">>, InfinityLiteral, <<"-">> \o InfinityLiteral }

\* the pages changePage is called with
PageArgs == -1 .. 4

OrderRows == <<[id |-> 1, status |-> "paid"], [id |-> 2, status |-> "completed"]>>

\* the pagination objects the server answers a call with: the page asked for
\* out of three, a page and a page size of the server's own choosing, or an
\* empty list
ServerPaginations(params) ==
  { [page |-> params.page, page_size |-> 20, total |-> 45, total_page |-> 3],
    [page |-> 2, page_size |-> 10, total |-> 18, total_page |-> 2],
    [page |-> 1, page_size |-> 20, total |-> 0, total_page |-> 0] }

\* response.data of a resolved call: the rows with a pagination object, no rows
\* (data is null) with the pagination of an empty list, or either without a
\* pagination object
ServerResponses(params) ==
  { [hasData |-> p.total > 0, data |-> OrderRows, hasPagination |-> TRUE, pagination |-> p] :
      p \in ServerPaginations(params) }
  \cup
  { [hasData |-> d, data |-> OrderRows, hasPagination |-> FALSE,
     pagination |-> [page |-> 0, page_size |-> 0, total |-> 0, total_page |-> 0]] :
      d \in BOOLEAN }

\* normalizeFilterValue that lets the sentinel through
normalizeFilterValue_Identity(value) == value

normalizeFilterValue(value) == IF value = AllSentinel THEN <<>> ELSE value

\* a repeated query parameter (an array) is not among the inputs
toQueryText(value) == IF value = undefined THEN <<>> ELSE trim(value)

\* value || undefined
orUndefined(value) == IF value = <<>> THEN undefined ELSE value

\* utils/format: the conversion is applied, its result is left uninterpreted
toRFC3339(value) == <<"toRFC3339">> \o value

\* the query fetchOrders hands to adminAPI.getOrders; filters' are the filters
\* as the calling handler leaves them
getOrdersParams(page) ==
  [page |-> page,
   page_size |-> pagination.page_size,
   status |-> orUndefined(normalizeFilterValue(filters'.status)),
   user_id |-> orUndefined(filters'.userId),
   order_no |-> orUndefined(filters'.orderNo),
   guest_email |-> orUndefined(filters'.guestEmail),
   created_from |-> toRFC3339(filters'.createdFrom),
   created_to |-> toRFC3339(filters'.createdTo)]

\* history of the most recently made call: it awaits its response, or it was
\* answered and the view then showed these rows and this pagination
NewestPending == [answered |-> FALSE, orders |-> <<>>, pagination |-> <<>>]

NewestAnswered(rows, pages) == [answered |-> TRUE, orders |-> rows, pagination |-> pages]

\* the call at position i is the most recently made one
IsNewest(i) == i = Len(requests) /\ ~outcome.newest.answered

\* fetchOrders up to its await: the call is made and awaits its response;
\* before records the pagination at the time of the call
fetchOrders(page) ==
  /\ Len(requests) < MaxInFlight
  /\ loading' = TRUE
  /\ requests' = Append(requests, [params |-> getOrdersParams(page), before |-> pagination])
  /\ outcome' = [outcome EXCEPT !.newest = NewestPending]
  /\ UNCHANGED <<orders, pagination, statusEdits>>

withoutRequest(i) == SubSeq(requests, 1, i - 1) \o SubSeq(requests, i + 1, Len(requests))

\* fetchOrders after its await, the call resolved: try block and finally
fetchOrdersResolved(i, response) ==
  LET rows == IF response.hasData THEN response.data ELSE <<>>
      ids == {rows[k].id : k \in DOMAIN rows}
  IN  /\ orders' = rows
      /\ pagination' = IF response.hasPagination THEN response.pagination ELSE pagination
      /\ statusEdits' =
           [id \in DOMAIN statusEdits \cup ids |->
              IF id \in ids THEN rows[CHOOSE k \in DOMAIN rows : rows[k].id = id].status
              ELSE statusEdits[id]]
      /\ loading' = FALSE
      /\ requests' = withoutRequest(i)
      /\ outcome' = [how |-> "resolved", hasPagination |-> response.hasPagination,
                      asBefore |-> pagination' = requests[i].before,
                      newest |-> IF IsNewest(i) THEN NewestAnswered(orders', pagination')
                                 ELSE outcome.newest]
      /\ UNCHANGED <<routeUserId, mounted, jumpPage, filters, filterEdits>>

\* a catch block that also puts the pagination back to its initial value
fetchOrdersRejected_ResetsPagination(i) ==
  /\ orders' = <<>>
  /\ pagination' = [page |-> 1, page_size |-> 20, total |-> 0, total_page |-> 1]
  /\ loading' = FALSE
  /\ requests' = withoutRequest(i)
  /\ outcome' = [how |-> "rejected", hasPagination |-> FALSE,
                  asBefore |-> pagination' = requests[i].before,
                  newest |-> IF IsNewest(i) THEN NewestAnswered(orders', pagination')
                             ELSE outcome.newest]
  /\ UNCHANGED <<routeUserId, mounted, jumpPage, filters, statusEdits, filterEdits>>

\* fetchOrders after its await, the call rejected: catch block and finally
fetchOrdersRejected(i) ==
  /\ orders' = <<>>
  /\ loading' = FALSE
  /\ requests' = withoutRequest(i)
  /\ outcome' = [how |-> "rejected", hasPagination |-> FALSE,
                  asBefore |-> pagination = requests[i].before,
                  newest |-> IF IsNewest(i) THEN NewestAnswered(<<>>, pagination)
                             ELSE outcome.newest]
  /\ UNCHANGED <<routeUserId, mounted, pagination, jumpPage, filters, statusEdits, filterEdits>>

handleSearch == fetchOrders(1)

\* changePage whose lower bound is off by one
changePage_OffByOne(page) ==
  IF page < 0 \/ page > pagination.total_page
  THEN UNCHANGED <<loading, orders, pagination, statusEdits, requests, outcome>>
  ELSE fetchOrders(page)

changePage(page) ==
  IF page < 1 \/ page > pagination.total_page
  THEN UNCHANGED <<loading, orders, pagination, statusEdits, requests, outcome>>
  ELSE fetchOrders(page)

(***************************************************************************)
(* views/admin/Orders.vue: the order detail and fulfillment dialogs        *)
(***************************************************************************)

\* the number of getOrder calls that may await their response at once
MaxDetailInFlight == 2

\* the number of createFulfillment calls made
MaxSubmissions == 1

\* null; the ids of orders are positive numbers
null == 0

\* the orders the server knows: the two of the list and order 3, a child of
\* order 2 whose items are all fulfilled by hand
ServerOrders ==
  <<[id |-> 1, status |-> "paid", children |-> {}, manual |-> TRUE],
    [id |-> 2, status |-> "completed", children |-> {3}, manual |-> FALSE],
    [id |-> 3, status |-> "paid", children |-> {}, manual |-> TRUE]>>

\* route.query.order_id: missing, or a text
OrderIdQueries == {undefined, <<"2">>}

\* what can be typed into the payload field of the fulfillment form
FulfillmentPayloads == {<<"K", " ">>}

\* err.message of a rejected call: missing
RejectionMessages == {<<>>}

\* err.message of a rejected updateCoupon or createCoupon call: empty, or a text
CouponRejectionMessages == {<<>>, <<"code exists">>}

\* err.message of the TypeError a read of null.id throws
NullReadMessage == <<"Cannot read properties of null">>

\* err?.message || fallback
messageOr(message, fallback) == IF message = <<>> THEN fallback ELSE message

\* the rows and the children carry no fulfillment and no children of their own
canCreateFulfillment(order) == order.status \in {"paid", "fulfilling"}

canCreateChildFulfillment(order) == canCreateFulfillment(order) /\ order.manual

createEmptyDeliveryEntry == [key |-> <<>>, value |-> <<>>]

\* the note and the entries that are not blank; a key left out of the payload
\* is the empty value here
buildDeliveryDataPayload ==
  LET trimmed == [k \in DOMAIN fulfillmentForm.entries |->
                    [key |-> trim(fulfillmentForm.entries[k].key),
                     value |-> trim(fulfillmentForm.entries[k].value)]]
      filled(item) == item.key # <<>> \/ item.value # <<>>
  IN  [note |-> trim(fulfillmentForm.note), entries |-> SelectSeq(trimmed, filled)]

hasFulfillmentSubmitData ==
  \/ trim(fulfillmentForm.payload) # <<>>
  \/ buildDeliveryDataPayload.note # <<>>
  \/ Len(buildDeliveryDataPayload.entries) > 0

resetFulfillmentForm ==
  /\ fulfillmentForm' = [payload |-> <<>>, note |-> <<>>,
                         entries |-> <<createEmptyDeliveryEntry>>]
  /\ fulfillmentError' = <<>>
  /\ fulfillmentSuccess' = <<>>

\* fetchOrderDetail up to its await: the call is made and awaits its response;
\* awaitedBy is what goes on once fetchOrderDetail has returned, a handler
\* that opens a dialog or submitFulfillment
fetchOrderDetail(orderId, awaitedBy) ==
  /\ BagCardinality(detailRequests) < MaxDetailInFlight
  /\ detailLoading' = TRUE
  /\ detailError' = <<>>
  /\ selectedOrder' = null
  /\ detailRequests' =
       detailRequests (+) SetToBag({[orderId |-> orderId, awaitedBy |-> awaitedBy]})

withoutDetailRequest(request) == detailRequests (-) SetToBag({request})

\* fetchOrderDetail after its await, the call resolved with the order asked for
fetchOrderDetailResolved(request) ==
  /\ selectedOrder' = request.orderId
  /\ detailLoading' = FALSE
  /\ detailRequests' = withoutDetailRequest(request)
  /\ UNCHANGED detailError

\* fetchOrderDetail after its await, the call rejected
fetchOrderDetailRejected(request, message) ==
  /\ detailError' = messageOr(message, t("admin.orders.detailFetchFailed"))
  /\ detailLoading' = FALSE
  /\ detailRequests' = withoutDetailRequest(request)
  /\ UNCHANGED selectedOrder

openDetail(order) ==
  /\ showFulfillmentModal' = FALSE
  /\ showDetail' = TRUE
  /\ resetFulfillmentForm
  /\ fetchOrderDetail(order.id, "open")
  /\ UNCHANGED <<fulfillmentParentId, fulfillmentSubmitting, fulfillmentRequests, submission>>

openDetailById(orderId) ==
  IF orderId = 0 \/ orderId <= 0
  THEN UNCHANGED <<showDetail, showFulfillmentModal, selectedOrder, detailLoading, detailError,
                   fulfillmentParentId, fulfillmentForm, fulfillmentSubmitting,
                   fulfillmentError, fulfillmentSuccess, detailRequests,
                   fulfillmentRequests, submission>>
  ELSE /\ showFulfillmentModal' = FALSE
       /\ showDetail' = TRUE
       /\ resetFulfillmentForm
       /\ fetchOrderDetail(orderId, "open")
       /\ UNCHANGED <<fulfillmentParentId, fulfillmentSubmitting, fulfillmentRequests,
                      submission>>

\* openFulfillment that leaves the detail dialog as it is
openFulfillment_KeepsDetail(order, parentId) ==
  /\ showFulfillmentModal' = TRUE
  /\ fulfillmentParentId' = IF parentId = 0 THEN null ELSE parentId
  /\ resetFulfillmentForm
  /\ fetchOrderDetail(order.id, "open")
  /\ submission' = [submission EXCEPT !.opened = order.id]
  /\ UNCHANGED <<showDetail, fulfillmentSubmitting, fulfillmentRequests>>

\* a parentId left out is passed as null
openFulfillment(order, parentId) ==
  /\ showDetail' = FALSE
  /\ showFulfillmentModal' = TRUE
  /\ fulfillmentParentId' = IF parentId = 0 THEN null ELSE parentId
  /\ resetFulfillmentForm
  /\ fetchOrderDetail(order.id, "open")
  /\ submission' = [submission EXCEPT !.opened = order.id]
  /\ UNCHANGED <<fulfillmentSubmitting, fulfillmentRequests>>

closeDetail ==
  /\ showDetail' = FALSE
  /\ selectedOrder' = null
  /\ detailError' = <<>>
  /\ resetFulfillmentForm
  /\ UNCHANGED <<showFulfillmentModal, detailLoading, fulfillmentParentId,
                 fulfillmentSubmitting, detailRequests, fulfillmentRequests, submission>>

closeFulfillment ==
  /\ showFulfillmentModal' = FALSE
  /\ selectedOrder' = null
  /\ detailError' = <<>>
  /\ resetFulfillmentForm
  /\ fulfillmentParentId' = null
  /\ UNCHANGED <<showDetail, detailLoading, fulfillmentSubmitting, detailRequests,
                 fulfillmentRequests, submission>>

\* submitFulfillment up to its await
submitFulfillment ==
  IF selectedOrder = null
  THEN UNCHANGED <<showDetail, showFulfillmentModal, selectedOrder, detailLoading, detailError,
                   fulfillmentParentId, fulfillmentForm, fulfillmentSubmitting,
                   fulfillmentError, fulfillmentSuccess, detailRequests,
                   fulfillmentRequests, submission>>
  ELSE IF ~hasFulfillmentSubmitData
  THEN /\ fulfillmentError' = t("admin.orders.fulfillmentSubmitRequired")
       /\ fulfillmentSuccess' = <<>>
       /\ UNCHANGED <<showDetail, showFulfillmentModal, selectedOrder, detailLoading,
                      detailError, fulfillmentParentId, fulfillmentForm,
                      fulfillmentSubmitting, detailRequests, fulfillmentRequests,
                      submission>>
  ELSE /\ fulfillmentError' = <<>>
       /\ fulfillmentSuccess' = <<>>
       /\ fulfillmentSubmitting' = TRUE
       /\ fulfillmentRequests' =
            Append(fulfillmentRequests,
                   [order_id |-> selectedOrder,
                    payload |-> trim(fulfillmentForm.payload),
                    delivery_data |-> buildDeliveryDataPayload])
       /\ submission' = [submission EXCEPT !.count = submission.count + 1]
       /\ UNCHANGED <<showDetail, showFulfillmentModal, selectedOrder, detailLoading,
                      detailError, fulfillmentParentId, fulfillmentForm, detailRequests>>

withoutFulfillmentRequest(i) ==
  SubSeq(fulfillmentRequests, 1, i - 1)
    \o SubSeq(fulfillmentRequests, i + 1, Len(fulfillmentRequests))

\* submitFulfillment after createFulfillment resolved, up to its second await;
\* with no parent and no selected order the read of selectedOrder.value.id
\* throws, and the catch block and finally run
submitFulfillmentCreated(i) ==
  /\ fulfillmentSuccess' = t("admin.orders.fulfillmentSuccess")
  /\ fulfillmentRequests' = withoutFulfillmentRequest(i)
  /\ UNCHANGED fulfillmentForm
  /\ IF fulfillmentParentId # null
     THEN /\ showFulfillmentModal' = FALSE
          /\ fulfillmentParentId' = null
          /\ showDetail' = TRUE
          /\ fetchOrderDetail(fulfillmentParentId, "submitFulfillment")
          /\ UNCHANGED <<fulfillmentError, fulfillmentSubmitting, submission>>
     ELSE IF selectedOrder = null
     THEN /\ fulfillmentError' = messageOr(NullReadMessage, t("admin.orders.fulfillmentFailed"))
          /\ fulfillmentSubmitting' = FALSE
          /\ UNCHANGED <<showDetail, showFulfillmentModal, selectedOrder, detailLoading,
                         detailError, fulfillmentParentId, detailRequests, submission>>
     ELSE /\ fetchOrderDetail(selectedOrder, "submitFulfillment")
          /\ UNCHANGED <<showDetail, showFulfillmentModal, fulfillmentParentId,
                         fulfillmentError, fulfillmentSubmitting, submission>>

\* submitFulfillment after createFulfillment rejected: catch block and finally
submitFulfillmentRejected(i, message) ==
  /\ fulfillmentError' = messageOr(message, t("admin.orders.fulfillmentFailed"))
  /\ fulfillmentSubmitting' = FALSE
  /\ fulfillmentRequests' = withoutFulfillmentRequest(i)
  /\ UNCHANGED <<showDetail, showFulfillmentModal, selectedOrder, detailLoading, detailError,
                 fulfillmentParentId, fulfillmentForm, fulfillmentSuccess, detailRequests,
                 submission>>

\* what the handler awaiting fetchOrderDetail does once it has returned:
\* submitFulfillment fetches the list again and its finally runs, the handlers
\* that open a dialog are done
afterFetchOrderDetail(awaitedBy) ==
  IF awaitedBy = "submitFulfillment"
  THEN /\ UNCHANGED filters
       /\ fetchOrders(pagination.page)
       /\ fulfillmentSubmitting' = FALSE
       /\ UNCHANGED <<routeUserId, mounted, jumpPage, filterEdits>>
  ELSE UNCHANGED <<listVars, fulfillmentSubmitting>>

(***************************************************************************)
(* Actions of the orders view                                              *)
(***************************************************************************)

\* onMounted: the user filter is taken from the route, the first page is
\* fetched and the order the route names is opened
onMounted ==
  /\ ~mounted
  /\ mounted' = TRUE
  /\ filters' = [filters EXCEPT !.userId = toQueryText(routeUserId)]
  /\ fetchOrders(1)
  /\ LET orderId == Number(routeOrderId)
     IN  IF orderId.kind = "finite" /\ orderId.num > 0
         THEN openDetailById(orderId.num)
         ELSE UNCHANGED <<showDetail, showFulfillmentModal, selectedOrder, detailLoading,
                          detailError, fulfillmentParentId, fulfillmentForm,
                          fulfillmentSubmitting, fulfillmentError, fulfillmentSuccess,
                          detailRequests, fulfillmentRequests, submission>>
  /\ UNCHANGED <<routeUserId, jumpPage, filterEdits, routeOrderId>>
  /\ UNCHANGED outsideOrders

\* the route's user_id changes and its watcher runs
WatchUserId ==
  /\ mounted
  /\ \E value \in UserIdQueries \ {routeUserId} :
       /\ routeUserId' = value
       /\ filters' = [filters EXCEPT !.userId = toQueryText(value)]
  /\ fetchOrders(1)
  /\ filterEdits < MaxFilterEdits
  /\ filterEdits' = filterEdits + 1
  /\ UNCHANGED <<mounted, jumpPage>>
  /\ UNCHANGED <<noticeVars, textVars, viewVars>>

\* a filter control changes: v-model assigns the field, then handleSearch runs
UpdateFilter ==
  /\ mounted
  /\ filterEdits < MaxFilterEdits
  /\ filterEdits' = filterEdits + 1
  /\ \E input \in FilterInputs : filters' = [filters EXCEPT ![input[1]] = input[2]]
  /\ handleSearch
  /\ UNCHANGED <<routeUserId, mounted, jumpPage>>
  /\ UNCHANGED <<noticeVars, textVars, viewVars>>

refresh ==
  /\ mounted
  /\ UNCHANGED filters
  /\ fetchOrders(pagination.page)
  /\ UNCHANGED <<routeUserId, mounted, jumpPage, filterEdits>>
  /\ UNCHANGED <<noticeVars, textVars, viewVars>>

ChangePage ==
  /\ mounted
  /\ UNCHANGED filters
  /\ \E page \in PageArgs : changePage(page)
  /\ UNCHANGED <<routeUserId, mounted, jumpPage, filterEdits>>
  /\ UNCHANGED <<noticeVars, textVars, viewVars>>

\* v-model of the jump input
SetJumpPage ==
  /\ mounted
  /\ \E input \in JumpInputs : jumpPage' = input
  /\ UNCHANGED <<routeUserId, mounted, loading, orders, pagination, filters, statusEdits,
                 requests, outcome, filterEdits>>
  /\ UNCHANGED <<noticeVars, textVars, viewVars>>

\* jumpToPage without the comparison of the target with the current page
jumpToPage_NoCurrentCheck ==
  /\ mounted
  /\ UNCHANGED filters
  /\ IF jumpPage = <<>>
     THEN UNCHANGED <<loading, orders, pagination, statusEdits, requests, outcome>>
     ELSE LET raw == Number(jumpPage)
          IN  IF isNaN(raw)
              THEN UNCHANGED <<loading, orders, pagination, statusEdits, requests, outcome>>
              ELSE LET target ==
                         MathMin(MathMax(MathFloor(raw), Finite(1, 1)),
                                 Finite(pagination.total_page, 1))
                   IN  changePage(target.num)
  /\ UNCHANGED <<routeUserId, mounted, jumpPage, filterEdits>>
  /\ UNCHANGED <<noticeVars, textVars, viewVars>>

jumpToPage ==
  /\ mounted
  /\ UNCHANGED filters
  /\ IF jumpPage = <<>>
     THEN UNCHANGED <<loading, orders, pagination, statusEdits, requests, outcome>>
     ELSE LET raw == Number(jumpPage)
          IN  IF isNaN(raw)
              THEN UNCHANGED <<loading, orders, pagination, statusEdits, requests, outcome>>
              ELSE LET target ==
                         MathMin(MathMax(MathFloor(raw), Finite(1, 1)),
                                 Finite(pagination.total_page, 1))
                   IN  IF target.num = pagination.page
                       THEN UNCHANGED <<loading, orders, pagination, statusEdits, requests, outcome>>
                       ELSE changePage(target.num)
  /\ UNCHANGED <<routeUserId, mounted, jumpPage, filterEdits>>
  /\ UNCHANGED <<noticeVars, textVars, viewVars>>

\* a getOrders call resolves
Resolved ==
  /\ \E i \in DOMAIN requests :
       \E response \in ServerResponses(requests[i].params) : fetchOrdersResolved(i, response)
  /\ UNCHANGED <<noticeVars, textVars, viewVars>>

\* a getOrders call rejects
Rejected ==
  /\ \E i \in DOMAIN requests : fetchOrdersRejected(i)
  /\ UNCHANGED <<noticeVars, textVars, viewVars>>

ListInit ==
  /\ routeUserId = undefined
  /\ mounted = FALSE
  /\ loading = TRUE
  /\ orders = <<>>
  /\ pagination = [page |-> 1, page_size |-> 20, total |-> 0, total_page |-> 1]
  /\ jumpPage = <<>>
  /\ filters = [orderNo |-> <<>>, guestEmail |-> <<>>, createdFrom |-> <<>>,
                createdTo |-> <<>>, status |-> <<>>, userId |-> <<>>]
  /\ statusEdits = <<>>
  /\ requests = <<>>
  /\ outcome = [how |-> "none", hasPagination |-> FALSE, asBefore |-> TRUE,
                newest |-> NewestPending]
  /\ filterEdits = 0

\* the buttons of a row of the list
OpenDetail ==
  /\ \E k \in DOMAIN orders : openDetail(orders[k])
  /\ UNCHANGED <<routeOrderId, listVars>>
  /\ UNCHANGED outsideOrders

OpenFulfillment ==
  /\ \E k \in DOMAIN orders :
       /\ canCreateFulfillment(orders[k])
       /\ openFulfillment(orders[k], null)
  /\ UNCHANGED <<routeOrderId, listVars>>
  /\ UNCHANGED outsideOrders

\* the button of a child order in the detail dialog
OpenChildFulfillment ==
  /\ showDetail
  /\ ~detailLoading
  /\ selectedOrder # null
  /\ \E child \in ServerOrders[selectedOrder].children :
       /\ canCreateChildFulfillment(ServerOrders[child])
       /\ openFulfillment(ServerOrders[child], selectedOrder)
  /\ UNCHANGED <<routeOrderId, listVars>>
  /\ UNCHANGED outsideOrders

\* the route's order_id changes and its watcher runs
WatchOrderId ==
  /\ mounted
  /\ \E value \in OrderIdQueries \ {routeOrderId} :
       /\ routeOrderId' = value
       /\ LET orderId == Number(value)
          IN  IF orderId.kind = "finite" /\ orderId.num > 0
              THEN openDetailById(orderId.num)
              ELSE UNCHANGED <<showDetail, showFulfillmentModal, selectedOrder,
                               detailLoading, detailError, fulfillmentParentId,
                               fulfillmentForm, fulfillmentSubmitting, fulfillmentError,
                               fulfillmentSuccess, detailRequests, fulfillmentRequests,
                               submission>>
  /\ UNCHANGED listVars
  /\ UNCHANGED outsideOrders

\* the detail dialog is dismissed
CloseDetail ==
  /\ showDetail
  /\ closeDetail
  /\ UNCHANGED <<routeOrderId, listVars>>
  /\ UNCHANGED outsideOrders

\* the fulfillment dialog is dismissed
CloseFulfillment ==
  /\ showFulfillmentModal
  /\ closeFulfillment
  /\ UNCHANGED <<routeOrderId, listVars>>
  /\ UNCHANGED outsideOrders

\* v-model of the payload field of the fulfillment form
SetPayload ==
  /\ showFulfillmentModal
  /\ ~detailLoading
  /\ selectedOrder # null
  /\ \E input \in FulfillmentPayloads :
       fulfillmentForm' = [fulfillmentForm EXCEPT !.payload = input]
  /\ UNCHANGED <<routeOrderId, showDetail, showFulfillmentModal, selectedOrder, detailLoading,
                 detailError, fulfillmentParentId, fulfillmentSubmitting, fulfillmentError,
                 fulfillmentSuccess, detailRequests, fulfillmentRequests, submission>>
  /\ UNCHANGED listVars
  /\ UNCHANGED outsideOrders

\* the fulfillment form is submitted: the form is shown for a loaded order and
\* its button is disabled while a submission is under way
SubmitFulfillment ==
  /\ showFulfillmentModal
  /\ ~detailLoading
  /\ selectedOrder # null
  /\ ~fulfillmentSubmitting
  /\ submission.count < MaxSubmissions
  /\ submitFulfillment
  /\ UNCHANGED <<routeOrderId, listVars>>
  /\ UNCHANGED outsideOrders

\* a createFulfillment call resolves
FulfillmentCreated ==
  /\ \E i \in DOMAIN fulfillmentRequests : submitFulfillmentCreated(i)
  /\ UNCHANGED <<routeOrderId, listVars>>
  /\ UNCHANGED outsideOrders

\* a createFulfillment call rejects
FulfillmentRejected ==
  /\ \E i \in DOMAIN fulfillmentRequests :
       \E message \in RejectionMessages : submitFulfillmentRejected(i, message)
  /\ UNCHANGED <<routeOrderId, listVars>>
  /\ UNCHANGED outsideOrders

\* a getOrder call resolves
DetailResolved ==
  /\ \E request \in BagToSet(detailRequests) :
       /\ fetchOrderDetailResolved(request)
       /\ afterFetchOrderDetail(request.awaitedBy)
  /\ UNCHANGED <<routeOrderId, showDetail, showFulfillmentModal, fulfillmentParentId,
                 fulfillmentForm, fulfillmentError, fulfillmentSuccess, fulfillmentRequests,
                 submission>>
  /\ UNCHANGED outsideOrders

\* a getOrder call rejects
DetailRejected ==
  /\ \E request \in BagToSet(detailRequests) :
       /\ \E message \in RejectionMessages : fetchOrderDetailRejected(request, message)
       /\ afterFetchOrderDetail(request.awaitedBy)
  /\ UNCHANGED <<routeOrderId, showDetail, showFulfillmentModal, fulfillmentParentId,
                 fulfillmentForm, fulfillmentError, fulfillmentSuccess, fulfillmentRequests,
                 submission>>
  /\ UNCHANGED outsideOrders

DetailInit ==
  /\ routeOrderId = undefined
  /\ showDetail = FALSE
  /\ showFulfillmentModal = FALSE
  /\ selectedOrder = null
  /\ detailLoading = FALSE
  /\ detailError = <<>>
  /\ fulfillmentParentId = null
  /\ fulfillmentForm = [payload |-> <<>>, note |-> <<>>, entries |-> <<>>]
  /\ fulfillmentSubmitting = FALSE
  /\ fulfillmentError = <<>>
  /\ fulfillmentSuccess = <<>>
  /\ detailRequests = EmptyBag
  /\ fulfillmentRequests = <<>>
  /\ submission = [opened |-> null, count |-> 0]


(***************************************************************************)
(* views/admin/UserLoginLogs.vue, the users view: list, selection and      *)
(* batch update                                                            *)
(***************************************************************************)

\* the statuses the two batch buttons pass
BatchStatuses == {"active", "disabled"}

\* the rows the server lists
UserRows == <<[id |-> 7], [id |-> 8]>>

\* response.data of a resolved getUsers call: the rows with the page asked for
\* out of three, or no rows (data is null) and no pagination object
UsersResponses(params) ==
  { [hasData |-> TRUE, data |-> UserRows, hasPagination |-> TRUE,
     pagination |-> [page |-> params.page, page_size |-> 20, total |-> 45, total_page |-> 3]],
    [hasData |-> FALSE, data |-> <<>>, hasPagination |-> FALSE,
     pagination |-> [page |-> 0, page_size |-> 0, total |-> 0, total_page |-> 0]] }

\* the filters are left as the view creates them
userFilters ==
  [keyword |-> <<>>, status |-> AllSentinel, createdFrom |-> <<>>, createdTo |-> <<>>,
   lastLoginFrom |-> <<>>, lastLoginTo |-> <<>>]

\* fetchUsers up to its await
fetchUsers(page) ==
  /\ BagCardinality(userRequests) < MaxInFlight
  /\ usersLoading' = TRUE
  /\ userRequests' =
       userRequests (+) SetToBag({[page |-> page,
                                   page_size |-> usersPagination.page_size,
                                   keyword |-> orUndefined(userFilters.keyword),
                                   status |-> orUndefined(normalizeFilterValue(userFilters.status)),
                                   created_from |-> orUndefined(userFilters.createdFrom),
                                   created_to |-> orUndefined(userFilters.createdTo),
                                   last_login_from |-> orUndefined(userFilters.lastLoginFrom),
                                   last_login_to |-> orUndefined(userFilters.lastLoginTo)]})
  /\ UNCHANGED <<users, usersPagination>>

\* fetchUsers after its await, the call resolved: try block and finally
fetchUsersResolved(request, response) ==
  /\ users' = IF response.hasData THEN response.data ELSE <<>>
  /\ usersPagination' = IF response.hasPagination THEN response.pagination ELSE usersPagination
  /\ selectedIds' = <<>>
  /\ usersLoading' = FALSE
  /\ userRequests' = userRequests (-) SetToBag({request})

\* fetchUsers after its await, the call rejected: catch block and finally
fetchUsersRejected(request) ==
  /\ users' = <<>>
  /\ usersLoading' = FALSE
  /\ userRequests' = userRequests (-) SetToBag({request})
  /\ UNCHANGED <<usersPagination, selectedIds>>

\* Array.prototype.includes on the selection
isSelected(id) == \E k \in DOMAIN selectedIds : selectedIds[k] = id

allSelected ==
  IF Len(users) = 0 THEN FALSE ELSE \A k \in DOMAIN users : isSelected(users[k].id)

toggleSelectAll ==
  IF allSelected
  THEN selectedIds' = <<>>
  ELSE selectedIds' = [k \in DOMAIN users |-> users[k].id]

\* batchUpdateStatus up to its first await: the confirmation is asked for;
\* asked records the selection at that time
batchUpdateStatus(status) ==
  IF Len(selectedIds) = 0
  THEN UNCHANGED confirmations
  ELSE confirmations' =
         confirmations (+) SetToBag({[status |-> status, count |-> Len(selectedIds),
                                      asked |-> selectedIds]})

\* batchUpdateStatus after confirmAction answered, up to its second await
batchUpdateStatusConfirmed(confirmation, confirmed) ==
  /\ confirmations' = confirmations (-) SetToBag({confirmation})
  /\ IF ~confirmed
     THEN UNCHANGED batchRequests
     ELSE /\ Len(batchRequests) < MaxInFlight
          /\ batchRequests' = Append(batchRequests,
                                     [user_ids |-> selectedIds, status |-> confirmation.status,
                                      asked |-> confirmation.asked])

withoutBatchRequest(i) ==
  SubSeq(batchRequests, 1, i - 1) \o SubSeq(batchRequests, i + 1, Len(batchRequests))

\* batchUpdateStatus after batchUpdateUserStatus resolved
batchUpdateStatusResolved(i) ==
  /\ batchRequests' = withoutBatchRequest(i)
  /\ fetchUsers(usersPagination.page)
  /\ UNCHANGED usersError

\* batchUpdateStatus after batchUpdateUserStatus rejected: catch block
batchUpdateStatusRejected(i, message) ==
  /\ batchRequests' = withoutBatchRequest(i)
  /\ usersError' = messageOr(message, t("admin.users.errors.updateFailed"))
  /\ UNCHANGED <<users, usersPagination, usersLoading, userRequests>>

(***************************************************************************)
(* Actions of the users view; a confirmation that awaits its answer is in  *)
(* front of the view, whose controls are not used meanwhile                *)
(***************************************************************************)

UsersMounted ==
  /\ ~usersMounted
  /\ usersMounted' = TRUE
  /\ fetchUsers(1)
  /\ UNCHANGED <<selectedIds, usersError, confirmations, batchRequests>>
  /\ UNCHANGED outsideUsers

RefreshUsers ==
  /\ usersMounted
  /\ confirmations = EmptyBag
  /\ fetchUsers(usersPagination.page)
  /\ UNCHANGED <<usersMounted, selectedIds, usersError, confirmations, batchRequests>>
  /\ UNCHANGED outsideUsers

\* the checkbox of a row: v-model adds the id to the array or takes it out
ToggleSelect ==
  /\ confirmations = EmptyBag
  /\ \E k \in DOMAIN users :
       selectedIds' = IF isSelected(users[k].id)
                      THEN SelectSeq(selectedIds, LAMBDA id : id # users[k].id)
                      ELSE Append(selectedIds, users[k].id)
  /\ UNCHANGED <<usersMounted, users, usersPagination, usersLoading, usersError,
                 userRequests, confirmations, batchRequests>>
  /\ UNCHANGED outsideUsers

ToggleSelectAll ==
  /\ usersMounted
  /\ confirmations = EmptyBag
  /\ toggleSelectAll
  /\ UNCHANGED <<usersMounted, users, usersPagination, usersLoading, usersError,
                 userRequests, confirmations, batchRequests>>
  /\ UNCHANGED outsideUsers

\* a batch button: the buttons are shown with a selection and more than one page
BatchUpdateStatus ==
  /\ confirmations = EmptyBag
  /\ Len(selectedIds) > 0
  /\ usersPagination.total_page > 1
  /\ \E status \in BatchStatuses : batchUpdateStatus(status)
  /\ UNCHANGED <<usersMounted, users, selectedIds, usersPagination, usersLoading, usersError,
                 userRequests, batchRequests>>
  /\ UNCHANGED outsideUsers

\* confirmAction is answered
ConfirmAnswered ==
  /\ \E confirmation \in BagToSet(confirmations) :
       \E confirmed \in BOOLEAN : batchUpdateStatusConfirmed(confirmation, confirmed)
  /\ UNCHANGED <<usersMounted, users, selectedIds, usersPagination, usersLoading, usersError,
                 userRequests>>
  /\ UNCHANGED outsideUsers

\* a batchUpdateUserStatus call resolves
BatchResolved ==
  /\ \E i \in DOMAIN batchRequests : batchUpdateStatusResolved(i)
  /\ UNCHANGED <<usersMounted, selectedIds, confirmations>>
  /\ UNCHANGED outsideUsers

\* a batchUpdateUserStatus call rejects
BatchRejected ==
  /\ \E i \in DOMAIN batchRequests :
       \E message \in RejectionMessages : batchUpdateStatusRejected(i, message)
  /\ UNCHANGED <<usersMounted, selectedIds, confirmations>>
  /\ UNCHANGED outsideUsers

\* a getUsers call resolves
UsersResolved ==
  /\ \E request \in BagToSet(userRequests) :
       \E response \in UsersResponses(request) : fetchUsersResolved(request, response)
  /\ UNCHANGED <<usersMounted, usersError, confirmations, batchRequests>>
  /\ UNCHANGED outsideUsers

\* a getUsers call rejects
UsersRejected ==
  /\ \E request \in BagToSet(userRequests) : fetchUsersRejected(request)
  /\ UNCHANGED <<usersMounted, usersError, confirmations, batchRequests>>
  /\ UNCHANGED outsideUsers

UsersInit ==
  /\ usersMounted = FALSE
  /\ users = <<>>
  /\ selectedIds = <<>>
  /\ usersLoading = TRUE
  /\ usersPagination = [page |-> 1, page_size |-> 20, total |-> 0, total_page |-> 1]
  /\ usersError = <<>>
  /\ userRequests = EmptyBag
  /\ confirmations = EmptyBag
  /\ batchRequests = <<>>

(***************************************************************************)
(* views/admin/Coupons.vue: the list, the modal and its form; of the form  *)
(* the code, the scope and the active flag are kept, the amounts, limits   *)
(* and dates go into the payload without a part in what is requested       *)
(***************************************************************************)

\* the number of updateCoupon and createCoupon calls that may await their
\* response at once
MaxCouponCalls == 1

\* the coupons the server lists; scope_ref_ids is an array
CouponRows ==
  <<[id |-> 5, code |-> <<"S", "A", "V", "E">>, scope_ref_ids |-> <<10, 11>>,
     is_active |-> TRUE],
    [id |-> 6, code |-> <<"O", "F", "F">>, scope_ref_ids |-> <<>>, is_active |-> FALSE]>>

\* route.query.id: missing, or a text
CouponIdQueries == {undefined, <<"5">>}

\* what can be typed into the scope field: pieces none of which is a finite
\* number above zero, or pieces of which two are
ScopeInputs ==
  { <<"a", ",", "0", " ", "-", "3", ",", "I", "n", "f", "i", "n", "i", "t", "y">>,
    <<" ", "3", "U+FF0C", "x", ",", " ", "4">> }

\* response.data of a resolved getCoupons call: the rows, or no rows (data is
\* null) and no pagination object
CouponsResponses(params) ==
  { [hasData |-> TRUE, data |-> CouponRows, hasPagination |-> TRUE,
     pagination |-> [page |-> params.page, page_size |-> 20, total |-> 2, total_page |-> 1]],
    [hasData |-> FALSE, data |-> <<>>, hasPagination |-> FALSE,
     pagination |-> [page |-> 0, page_size |-> 0, total |-> 0, total_page |-> 0]] }

\* String(n) of a whole number that is not negative
RECURSIVE toText(_)
toText(n) ==
  IF n < 10 THEN <<DigitChars[n + 1]>> ELSE toText(n \div 10) \o <<DigitChars[(n % 10) + 1]>>

\* Array.prototype.join
RECURSIVE join(_, _)
join(parts, glue) ==
  IF parts = <<>> THEN <<>>
  ELSE IF Len(parts) = 1 THEN parts[1]
  ELSE parts[1] \o glue \o join(Tail(parts), glue)

\* the rows carry arrays, the other branches are not among the inputs
formatScopeInput(scope) == join([k \in DOMAIN scope |-> toText(scope[k])], <<",", " ">>)

\* the characters of the pattern [, U+FF0C \s]
ScopeSeparators == {",", "U+FF0C"} \cup WhiteSpace

\* String.prototype.split on runs of separators: a separator at either end
\* leaves an empty piece there
RECURSIVE splitScope(_)
splitScope(raw) ==
  LET at == {i \in DOMAIN raw : raw[i] \in ScopeSeparators}
  IN  IF at = {} THEN <<raw>>
      ELSE LET first == CHOOSE i \in at : \A j \in at : i <= j
               rest == {i \in DOMAIN raw : i > first /\ raw[i] \notin ScopeSeparators}
               next == IF rest = {} THEN Len(raw) + 1
                       ELSE CHOOSE i \in rest : \A j \in rest : i <= j
           IN  <<SubSeq(raw, 1, first - 1)>> \o splitScope(SubSeq(raw, next, Len(raw)))

\* parseScopeIDs that keeps every finite number
parseScopeIDs_KeepsAllFinite(raw) ==
  LET numbers == [k \in DOMAIN splitScope(raw) |-> Number(splitScope(raw)[k])]
      kept(item) == item.kind = "finite"
  IN  SelectSeq(numbers, kept)

parseScopeIDs(raw) ==
  LET numbers == [k \in DOMAIN splitScope(raw) |-> Number(splitScope(raw)[k])]
      kept(item) == item.kind = "finite" /\ item.num > 0
  IN  SelectSeq(numbers, kept)

\* applyRouteFilter: the code is not in the route
applyRouteFilter ==
  LET parsed == Number(couponRoute')
  IN  IF parsed.kind = "finite" /\ parsed.num > 0
      THEN /\ couponFilters' = [id |-> toText(parsed.num), code |-> <<>>,
                                isActive |-> couponFilters.isActive]
           /\ autoOpenId' = parsed.num
      ELSE /\ couponFilters' = [id |-> <<>>, code |-> <<>>, isActive |-> couponFilters.isActive]
           /\ autoOpenId' = null

resetForm ==
  /\ form' = [code |-> <<>>, scope_ref_ids |-> <<>>, is_active |-> TRUE]
  /\ editingId' = null
  /\ isEditing' = FALSE

\* fetchCoupons up to its await; couponFilters' are the filters as the calling
\* handler leaves them
fetchCoupons(page) ==
  LET normalizedIsActive == normalizeFilterValue(couponFilters'.isActive)
  IN  /\ BagCardinality(couponRequests) < MaxInFlight
      /\ couponsLoading' = TRUE
      /\ couponRequests' =
           couponRequests (+) SetToBag({[page |-> page,
                                         page_size |-> couponsPagination.page_size,
                                         id |-> orUndefined(couponFilters'.id),
                                         code |-> orUndefined(couponFilters'.code),
                                         is_active |->
                                           IF normalizedIsActive = <<>> THEN undefined
                                           ELSE normalizedIsActive = <<"t", "r", "u", "e">>]})

openCreateModal ==
  /\ couponsError' = <<>>
  /\ resetForm
  /\ showModal' = TRUE

openEditModal(coupon) ==
  /\ couponsError' = <<>>
  /\ isEditing' = TRUE
  /\ editingId' = coupon.id
  /\ form' = [code |-> coupon.code,
              scope_ref_ids |-> formatScopeInput(coupon.scope_ref_ids),
              is_active |-> coupon.is_active]
  /\ showModal' = TRUE

closeModal ==
  /\ showModal' = FALSE
  /\ isEditing' = FALSE
  /\ editingId' = null

\* fetchCoupons after its await, the call resolved: try block and finally
fetchCouponsResolved(request, response) ==
  LET rows == IF response.hasData THEN response.data ELSE <<>>
      found == {k \in DOMAIN rows : rows[k].id = autoOpenId}
  IN  /\ coupons' = rows
      /\ couponsPagination' =
           IF response.hasPagination THEN response.pagination ELSE couponsPagination
      /\ IF autoOpenId # null /\ found # {}
         THEN openEditModal(rows[CHOOSE k \in found : \A j \in found : k <= j])
         ELSE UNCHANGED <<couponsError, isEditing, editingId, form, showModal>>
      /\ autoOpenId' = null
      /\ couponsLoading' = FALSE
      /\ couponRequests' = couponRequests (-) SetToBag({request})

\* fetchCoupons after its await, the call rejected: catch block and finally
fetchCouponsRejected(request) ==
  /\ coupons' = <<>>
  /\ couponsLoading' = FALSE
  /\ couponRequests' = couponRequests (-) SetToBag({request})
  /\ UNCHANGED <<couponsPagination, autoOpenId, couponsError, isEditing, editingId, form,
                 showModal>>

\* handleSubmit up to its await
handleSubmit ==
  LET scopeIDs == parseScopeIDs(form.scope_ref_ids)
      payload == [code |-> trim(form.code), scope_ref_ids |-> scopeIDs,
                  is_active |-> form.is_active]
  IN  IF Len(scopeIDs) = 0
      THEN /\ couponsError' = t("admin.coupons.errors.scopeRequired")
           /\ UNCHANGED submitRequests
      ELSE /\ couponsError' = <<>>
           /\ Len(submitRequests) < MaxCouponCalls
           /\ submitRequests' =
                Append(submitRequests,
                       IF isEditing /\ editingId # null
                       THEN [call |-> "updateCoupon", id |-> editingId, payload |-> payload]
                       ELSE [call |-> "createCoupon", id |-> null, payload |-> payload])

withoutSubmitRequest(i) ==
  SubSeq(submitRequests, 1, i - 1) \o SubSeq(submitRequests, i + 1, Len(submitRequests))

\* handleSubmit after its await, the call resolved
handleSubmitResolved(i) ==
  /\ submitRequests' = withoutSubmitRequest(i)
  /\ closeModal
  /\ UNCHANGED couponFilters
  /\ fetchCoupons(1)
  /\ UNCHANGED <<couponsError, form>>

\* handleSubmit after its await, the call rejected: catch block
handleSubmitRejected(i, message) ==
  /\ submitRequests' = withoutSubmitRequest(i)
  /\ couponsError' =
       messageOr(message, IF isEditing THEN t("admin.coupons.errors.updateFailed")
                          ELSE t("admin.coupons.errors.createFailed"))
  /\ UNCHANGED <<showModal, isEditing, editingId, form, couponsLoading, couponRequests,
                 couponFilters>>

(***************************************************************************)
(* Actions of the coupons view                                             *)
(***************************************************************************)

CouponsMounted ==
  /\ ~couponsMounted
  /\ couponsMounted' = TRUE
  /\ UNCHANGED couponRoute
  /\ applyRouteFilter
  /\ fetchCoupons(1)
  /\ UNCHANGED <<coupons, couponsPagination, showModal, couponsError, isEditing, editingId,
                 form, submitRequests>>
  /\ UNCHANGED outsideCoupons

\* the route's id changes and its watcher runs
WatchCouponId ==
  /\ couponsMounted
  /\ \E value \in CouponIdQueries \ {couponRoute} : couponRoute' = value
  /\ applyRouteFilter
  /\ fetchCoupons(1)
  /\ UNCHANGED <<couponsMounted, coupons, couponsPagination, showModal, couponsError,
                 isEditing, editingId, form, submitRequests>>
  /\ UNCHANGED outsideCoupons

OpenCreateModal ==
  /\ couponsMounted
  /\ openCreateModal
  /\ UNCHANGED <<couponsMounted, couponRoute, couponFilters, autoOpenId, coupons,
                 couponsLoading, couponsPagination, couponRequests, submitRequests>>
  /\ UNCHANGED outsideCoupons

\* the edit button of a row
OpenEditModal ==
  /\ \E k \in DOMAIN coupons : openEditModal(coupons[k])
  /\ UNCHANGED <<couponsMounted, couponRoute, couponFilters, autoOpenId, coupons,
                 couponsLoading, couponsPagination, couponRequests, submitRequests>>
  /\ UNCHANGED outsideCoupons

\* the modal is dismissed or its cancel button is used
CloseModal ==
  /\ showModal
  /\ closeModal
  /\ UNCHANGED <<couponsMounted, couponRoute, couponFilters, autoOpenId, coupons,
                 couponsLoading, couponsPagination, couponsError, form, couponRequests,
                 submitRequests>>
  /\ UNCHANGED outsideCoupons

\* v-model of the scope field
SetScope ==
  /\ showModal
  /\ \E input \in ScopeInputs : form' = [form EXCEPT !.scope_ref_ids = input]
  /\ UNCHANGED <<couponsMounted, couponRoute, couponFilters, autoOpenId, coupons,
                 couponsLoading, couponsPagination, showModal, couponsError, isEditing,
                 editingId, couponRequests, submitRequests>>
  /\ UNCHANGED outsideCoupons

\* the form of the modal is submitted
HandleSubmit ==
  /\ showModal
  /\ handleSubmit
  /\ UNCHANGED <<couponsMounted, couponRoute, couponFilters, autoOpenId, coupons,
                 couponsLoading, couponsPagination, showModal, isEditing, editingId, form,
                 couponRequests>>
  /\ UNCHANGED outsideCoupons

\* an updateCoupon or createCoupon call resolves
SubmitResolved ==
  /\ \E i \in DOMAIN submitRequests : handleSubmitResolved(i)
  /\ UNCHANGED <<couponsMounted, couponRoute, autoOpenId, coupons, couponsPagination>>
  /\ UNCHANGED outsideCoupons

\* an updateCoupon or createCoupon call rejects
SubmitRejected ==
  /\ \E i \in DOMAIN submitRequests :
       \E message \in CouponRejectionMessages : handleSubmitRejected(i, message)
  /\ UNCHANGED <<couponsMounted, couponRoute, autoOpenId, coupons, couponsPagination>>
  /\ UNCHANGED outsideCoupons

\* a getCoupons call resolves
CouponsResolved ==
  /\ \E request \in BagToSet(couponRequests) :
       \E response \in CouponsResponses(request) : fetchCouponsResolved(request, response)
  /\ UNCHANGED <<couponsMounted, couponRoute, couponFilters, submitRequests>>
  /\ UNCHANGED outsideCoupons

\* a getCoupons call rejects
CouponsRejected ==
  /\ \E request \in BagToSet(couponRequests) : fetchCouponsRejected(request)
  /\ UNCHANGED <<couponsMounted, couponRoute, couponFilters, submitRequests>>
  /\ UNCHANGED outsideCoupons

CouponsInit ==
  /\ couponsMounted = FALSE
  /\ couponRoute = undefined
  /\ couponFilters = [id |-> <<>>, code |-> <<>>, isActive |-> AllSentinel]
  /\ autoOpenId = null
  /\ coupons = <<>>
  /\ couponsLoading = TRUE
  /\ couponsPagination = [page |-> 1, page_size |-> 20, total |-> 0, total_page |-> 1]
  /\ showModal = FALSE
  /\ couponsError = <<>>
  /\ isEditing = FALSE
  /\ editingId = null
  /\ form = [code |-> <<>>, scope_ref_ids |-> <<>>, is_active |-> TRUE]
  /\ couponRequests = EmptyBag
  /\ submitRequests = <<>>

(***************************************************************************)
(* views/admin/Orders.vue: the status of a listed order                    *)
(***************************************************************************)

\* the number of updateOrderStatus calls that may await their response at once
MaxStatusCalls == 1

\* the rows of a list with an order in every kind of status, one without any
StatusRows ==
  <<[id |-> 1, status |-> "paid"], [id |-> 2, status |-> "completed"],
    [id |-> 3, status |-> "delivered"], [id |-> 4, status |-> "canceled"],
    [id |-> 5, status |-> ""]>>

\* the items of the status select that are chosen
StatusChoices == {"paid", "delivered", "completed"}

\* response.data of a resolved getOrders call that lists these rows
StatusResponses(params) ==
  { [hasData |-> TRUE, data |-> StatusRows, hasPagination |-> TRUE,
     pagination |-> [page |-> params.page, page_size |-> 20, total |-> 45, total_page |-> 3]] }

\* the handlers are called with a row of the list, never with null
canUpdateStatus(order) == order.status # "completed" /\ order.status # "canceled"

\* updateStatus without the comparison with the listed status
updateStatus_WithoutComparison(order) ==
  IF ~canUpdateStatus(order) THEN UNCHANGED statusRequests
  ELSE LET status == statusEdits[order.id]
       IN  IF status = "" THEN UNCHANGED statusRequests
           ELSE statusRequests' =
                  Append(statusRequests, [id |-> order.id, payload |-> [status |-> status]])

\* updateStatus up to its await
updateStatus(order) ==
  IF ~canUpdateStatus(order) THEN UNCHANGED statusRequests
  ELSE LET status == statusEdits[order.id]
       IN  IF status = "" \/ status = order.status THEN UNCHANGED statusRequests
           ELSE statusRequests' =
                  Append(statusRequests, [id |-> order.id, payload |-> [status |-> status]])

\* markCompleted up to its await
markCompleted(order) ==
  IF order.status # "delivered" THEN UNCHANGED statusRequests
  ELSE statusRequests' =
         Append(statusRequests, [id |-> order.id, payload |-> [status |-> "completed"]])

withoutStatusRequest(i) ==
  SubSeq(statusRequests, 1, i - 1) \o SubSeq(statusRequests, i + 1, Len(statusRequests))

\* updateStatus and markCompleted after their await, the call resolved
updateOrderStatusResolved(i) ==
  /\ statusRequests' = withoutStatusRequest(i)
  /\ UNCHANGED filters
  /\ fetchOrders(pagination.page)
  /\ UNCHANGED <<routeUserId, mounted, jumpPage, filterEdits>>

\* the call rejected: the handler ends with the rejection, which nothing catches
updateOrderStatusRejected(i) ==
  /\ statusRequests' = withoutStatusRequest(i)
  /\ UNCHANGED listVars

\* a getOrders call resolves with the rows of every status
StatusListResolved ==
  /\ \E i \in DOMAIN requests :
       \E response \in StatusResponses(requests[i].params) : fetchOrdersResolved(i, response)
  /\ UNCHANGED <<noticeVars, textVars, viewVars>>

\* an item of the select of a row is chosen; the select is there for the rows
\* whose status can be updated
SelectStatus ==
  /\ \E k \in DOMAIN orders, status \in StatusChoices :
       /\ canUpdateStatus(orders[k])
       /\ statusEdits' = [statusEdits EXCEPT ![orders[k].id] = status]
  /\ UNCHANGED <<routeUserId, mounted, loading, orders, pagination, jumpPage, filters,
                 requests, outcome, filterEdits>>
  /\ UNCHANGED statusVars
  /\ UNCHANGED outsideStatus

\* updateStatus is called with a row
UpdateStatus ==
  /\ Len(statusRequests) < MaxStatusCalls
  /\ \E k \in DOMAIN orders : updateStatus(orders[k])
  /\ UNCHANGED listVars
  /\ UNCHANGED outsideStatus

\* markCompleted is called with a row
MarkCompleted ==
  /\ Len(statusRequests) < MaxStatusCalls
  /\ \E k \in DOMAIN orders : markCompleted(orders[k])
  /\ UNCHANGED listVars
  /\ UNCHANGED outsideStatus

\* an updateOrderStatus call resolves
StatusUpdated ==
  /\ \E i \in DOMAIN statusRequests : updateOrderStatusResolved(i)
  /\ UNCHANGED outsideStatus

\* an updateOrderStatus call rejects
StatusUpdateRejected ==
  /\ \E i \in DOMAIN statusRequests : updateOrderStatusRejected(i)
  /\ UNCHANGED outsideStatus

StatusInit == statusRequests = <<>>

(***************************************************************************)
(* The login view                                                          *)
(***************************************************************************)

\* the number of login calls made
MaxLoginCalls == 1

\* payload.captcha of the public configuration: missing, or the provider and
\* whether the login scene is on; a provider that is missing reads as none
CaptchaConfigs ==
  {[set |-> FALSE, provider |-> "none", login |-> FALSE]}
  \cup [set : {TRUE}, provider : {"none", "image", "turnstile", "geetest"}, login : BOOLEAN]

\* what the image captcha hands to its v-model: an id and a code, each possibly
\* empty or missing
ImagePayloads == [captcha_id : {"", "c1"}, captcha_code : {"", "x7"}]

\* what the turnstile widget hands to its v-model
TurnstileTokens == {"", "tok"}

\* what is typed into the two fields
Usernames == {<<" ", "a", " ">>, <<"b">>}
Passwords == {<<"p", " ">>}

captchaProvider == IF captchaConfig.set THEN captchaConfig.provider ELSE "none"

loginCaptchaEnabled == captchaConfig.set /\ captchaConfig.login /\ captchaProvider # "none"

\* a captcha payload is undefined, or an object with its fields
NoPayload == [defined |-> FALSE, fields |-> {}]

getCaptchaPayload ==
  IF ~loginCaptchaEnabled THEN NoPayload
  ELSE IF captchaProvider = "image"
       THEN [defined |-> TRUE,
             fields |-> {<<"captcha_id", captchaPayload.captcha_id>>,
                         <<"captcha_code", captchaPayload.captcha_code>>}]
  ELSE IF captchaProvider = "turnstile"
       THEN [defined |-> TRUE, fields |-> {<<"turnstile_token", turnstileToken>>}]
  ELSE NoPayload

\* submit up to its await
submit ==
  IF /\ loginCaptchaEnabled
     /\ captchaProvider = "image"
     /\ (captchaPayload.captcha_id = "" \/ captchaPayload.captcha_code = "")
  THEN /\ loginError' = t("admin.login.captchaRequired")
       /\ UNCHANGED loginRequests
  ELSE IF loginCaptchaEnabled /\ captchaProvider = "turnstile" /\ turnstileToken = ""
  THEN /\ loginError' = t("admin.login.captchaRequired")
       /\ UNCHANGED loginRequests
  ELSE /\ loginError' = <<>>
       /\ loginRequests' = Append(loginRequests,
                                   [username |-> trim(username), password |-> password,
                                    captcha_payload |-> getCaptchaPayload])

\* submit after its await, the call resolved
submitResolved ==
  /\ loginRequests' = Tail(loginRequests)
  /\ route' = "/"
  /\ UNCHANGED <<loginError, turnstileToken>>

\* submit after its await, the call rejected: the catch block; what the image
\* captcha hands over after its refresh arrives through its v-model
submitRejected(message) ==
  /\ loginRequests' = Tail(loginRequests)
  /\ loginError' = messageOr(message, t("admin.login.errors.invalidCredentials"))
  /\ turnstileToken' = IF captchaProvider = "turnstile" THEN "" ELSE turnstileToken
  /\ UNCHANGED route

\* loadCaptchaConfig up to its await
loadCaptchaConfig ==
  /\ loadingCaptcha' = TRUE
  /\ configRequests' = configRequests + 1
  /\ UNCHANGED captchaConfig

LoginMounted ==
  /\ ~loginMounted
  /\ loginMounted' = TRUE
  /\ loadCaptchaConfig
  /\ UNCHANGED <<username, password, loginError, captchaPayload, turnstileToken,
                 loginRequests, route>>
  /\ UNCHANGED outsideLogin

\* the getPublicConfig call resolves
ConfigResolved ==
  /\ configRequests > 0
  /\ configRequests' = configRequests - 1
  /\ \E config \in CaptchaConfigs : captchaConfig' = config
  /\ loadingCaptcha' = FALSE
  /\ UNCHANGED <<loginMounted, username, password, loginError, captchaPayload,
                 turnstileToken, loginRequests, route>>
  /\ UNCHANGED outsideLogin

\* the getPublicConfig call rejects
ConfigRejected ==
  /\ configRequests > 0
  /\ configRequests' = configRequests - 1
  /\ captchaConfig' = [set |-> FALSE, provider |-> "none", login |-> FALSE]
  /\ loadingCaptcha' = FALSE
  /\ UNCHANGED <<loginMounted, username, password, loginError, captchaPayload,
                 turnstileToken, loginRequests, route>>
  /\ UNCHANGED outsideLogin

\* the view is on the screen
OnLogin == loginMounted /\ route = "/login"

\* the two fields are filled in
TypeCredentials ==
  /\ OnLogin
  /\ \E name \in Usernames, word \in Passwords : username' = name /\ password' = word
  /\ UNCHANGED <<loginMounted, loginError, loadingCaptcha, captchaConfig, captchaPayload,
                 turnstileToken, configRequests, loginRequests, route>>
  /\ UNCHANGED outsideLogin

\* the image captcha, shown when it is the provider, hands over a payload
SetCaptcha ==
  /\ OnLogin
  /\ loginCaptchaEnabled /\ captchaProvider = "image"
  /\ \E payload \in ImagePayloads : captchaPayload' = payload
  /\ UNCHANGED <<loginMounted, username, password, loginError, loadingCaptcha, captchaConfig,
                 turnstileToken, configRequests, loginRequests, route>>
  /\ UNCHANGED outsideLogin

\* the turnstile widget, shown when it is the provider, hands over a token
SetTurnstile ==
  /\ OnLogin
  /\ loginCaptchaEnabled /\ captchaProvider = "turnstile"
  /\ \E token \in TurnstileTokens : turnstileToken' = token
  /\ UNCHANGED <<loginMounted, username, password, loginError, loadingCaptcha, captchaConfig,
                 captchaPayload, configRequests, loginRequests, route>>
  /\ UNCHANGED outsideLogin

\* the form is submitted; its button is disabled while the configuration loads
\* and while a login is under way
Submit ==
  /\ OnLogin
  /\ ~loadingCaptcha
  /\ Len(loginRequests) < MaxLoginCalls
  /\ submit
  /\ UNCHANGED <<loginMounted, username, password, loadingCaptcha, captchaConfig,
                 captchaPayload, turnstileToken, configRequests, route>>
  /\ UNCHANGED outsideLogin

\* the login call resolves
LoginResolved ==
  /\ loginRequests # <<>>
  /\ submitResolved
  /\ UNCHANGED <<loginMounted, username, password, loadingCaptcha, captchaConfig,
                 captchaPayload, configRequests>>
  /\ UNCHANGED outsideLogin

\* the login call rejects
LoginRejected ==
  /\ loginRequests # <<>>
  /\ \E message \in RejectionMessages : submitRejected(message)
  /\ UNCHANGED <<loginMounted, username, password, loadingCaptcha, captchaConfig,
                 captchaPayload, configRequests>>
  /\ UNCHANGED outsideLogin

LoginInit ==
  /\ loginMounted = FALSE
  /\ username = <<>>
  /\ password = <<>>
  /\ loginError = <<>>
  /\ loadingCaptcha = FALSE
  /\ captchaConfig = [set |-> FALSE, provider |-> "none", login |-> FALSE]
  /\ captchaPayload = [captcha_id |-> "", captcha_code |-> ""]
  /\ turnstileToken = ""
  /\ configRequests = 0
  /\ loginRequests = <<>>
  /\ route = "/login"

(***************************************************************************)
(* The settings view                                                       *)
(***************************************************************************)

\* the number of edits made to the dashboard form
MaxDashboardEdits == 1

\* the number of updateSettings calls that may await their response at once
MaxSaves == 1

\* a JavaScript value as a field of a response or of a form holds it: null,
\* undefined, a string or a number
JsNull == [type |-> "null", text |-> <<>>, value |-> NaN]

JsUndefined == [type |-> "undefined", text |-> <<>>, value |-> NaN]

JsString(chars) == [type |-> "string", text |-> chars, value |-> NaN]

JsNumber(value) == [type |-> "number", text |-> <<>>, value |-> value]

\* what v-model.number leaves in a field of the dashboard form: the empty
\* string of an emptied input, or the number typed
TypedNumbers ==
  {JsString(<<>>), JsNumber(Finite(0, 1)), JsNumber(Finite(100001, 1))}

\* the fields of the dashboard form
DashboardFields ==
  {<<"alert", "low_stock_threshold">>, <<"alert", "out_of_stock_products_threshold">>,
   <<"alert", "pending_payment_orders_threshold">>, <<"alert", "payments_failed_threshold">>,
   <<"ranking", "top_products_limit">>, <<"ranking", "top_channels_limit">>}

\* the four calls of fetchSettings
SettingsCalls == {"site_config", "smtp", "captcha", "dashboard_config"}

\* data.data of the answer to each call: missing, or the settings; of the site,
\* SMTP and captcha settings the fields kept are one of each kind the view reads
NoData(call) ==
  IF call = "site_config" THEN [has |-> FALSE, data |-> [site_name |-> <<>>]]
  ELSE IF call = "smtp" THEN [has |-> FALSE, data |-> [host |-> <<>>, port |-> JsNull]]
  ELSE IF call = "captcha" THEN [has |-> FALSE, data |-> [provider |-> <<>>, login |-> FALSE]]
  ELSE [has |-> FALSE,
        data |-> [alert |-> [low_stock_threshold |-> JsNull,
                             out_of_stock_products_threshold |-> JsNull,
                             pending_payment_orders_threshold |-> JsNull,
                             payments_failed_threshold |-> JsNull],
                  ranking |-> [top_products_limit |-> JsNull, top_channels_limit |-> JsNull]]]

\* the dashboard settings the server may hold: values of every kind, in and out
\* of range
DashboardSettings ==
  { [alert |-> [low_stock_threshold |-> JsNull,
                out_of_stock_products_threshold |-> JsString(<<"a", "b", "c">>),
                pending_payment_orders_threshold |-> JsNumber(Finite(100001, 1)),
                payments_failed_threshold |-> JsNumber(Finite(-3, 1))],
     ranking |-> [top_products_limit |-> JsUndefined,
                  top_channels_limit |-> JsNumber(Infinity(1))]],
    [alert |-> [low_stock_threshold |-> JsNumber(Finite(501, 1)),
                out_of_stock_products_threshold |-> JsString(<<"7">>),
                pending_payment_orders_threshold |-> JsNumber(NaN),
                payments_failed_threshold |-> JsString(<<>>)],
     ranking |-> [top_products_limit |-> JsNumber(Finite(0, 1)),
                  top_channels_limit |-> JsNumber(Finite(25, 10))]] }

SettingsResponses(call) ==
  IF call = "site_config" THEN {[has |-> TRUE, data |-> [site_name |-> <<"S">>]]}
  ELSE IF call = "smtp"
       THEN {[has |-> TRUE, data |-> [host |-> <<"h">>, port |-> JsString(<<"2", "5">>)]]}
  ELSE IF call = "captcha"
       THEN {[has |-> TRUE, data |-> [provider |-> <<"image">>, login |-> TRUE]]}
  ELSE {NoData(call)} \cup {[has |-> TRUE, data |-> settings] : settings \in DashboardSettings}

\* the error a call rejects with: whether the API client marked it as notified,
\* and its message, possibly missing
SettingsErrors == [notified : BOOLEAN, message : {<<>>, <<"d", "o", "w", "n">>}]

\* normalizeNumber that lets NaN through
normalizeNumber_KeepsNaN(value, fallback) ==
  IF value.type \in {"null", "undefined"} \/ (value.type = "string" /\ value.text = <<>>)
  THEN Finite(fallback, 1)
  ELSE IF value.type = "number" THEN value.value ELSE Number(value.text)

normalizeNumber(value, fallback) ==
  IF value.type \in {"null", "undefined"} \/ (value.type = "string" /\ value.text = <<>>)
  THEN Finite(fallback, 1)
  ELSE LET parsed == IF value.type = "number" THEN value.value ELSE Number(value.text)
       IN  IF isNaN(parsed) THEN Finite(fallback, 1) ELSE parsed

clampNumber(value, min, max, fallback) ==
  LET parsed == normalizeNumber(value, fallback)
  IN  IF LessThan(parsed, Finite(min, 1)) THEN Finite(min, 1)
      ELSE IF LessThan(Finite(max, 1), parsed) THEN Finite(max, 1)
      ELSE parsed

\* known?.message || fallback is notified unless the error is marked
notifyErrorIfNeeded(err, fallback) ==
  IF err.notified
  THEN UNCHANGED <<lastMessage, lastNormalized, lastType, lastAt, items, timerMap,
                   sequence, pushed>>
  ELSE pushNoticeCall(messageOr(err.message, fallback), "error", "common.api.requestFailed")

\* what the reactive state of the settings view is before the view is set up
NotCreated == <<>>

\* the setup of the settings view: its forms with their declared values
setup ==
  /\ siteForm' = [site_name |-> <<>>]
  /\ smtpForm' = [host |-> <<>>, port |-> JsNumber(Finite(587, 1))]
  /\ captchaForm' = [provider |-> <<"none">>, login |-> FALSE]
  /\ dashboardForm' =
       [alert |-> [low_stock_threshold |-> JsNumber(Finite(5, 1)),
                   out_of_stock_products_threshold |-> JsNumber(Finite(1, 1)),
                   pending_payment_orders_threshold |-> JsNumber(Finite(20, 1)),
                   payments_failed_threshold |-> JsNumber(Finite(10, 1))],
        ranking |-> [top_products_limit |-> JsNumber(Finite(5, 1)),
                     top_channels_limit |-> JsNumber(Finite(5, 1))]]
  /\ passwordForm' = [old |-> <<>>, new |-> <<>>, confirm |-> <<>>]

\* fetchSettings up to its await
fetchSettings ==
  /\ settingsLoading' = TRUE
  /\ settingsFetch' = [answers |-> [call \in SettingsCalls |-> [state |-> "pending",
                                                               response |-> NoData(call)]],
                       settled |-> FALSE]

\* the try block of fetchSettings after its await: the four answers are applied
applySettings(answers) ==
  LET site == answers["site_config"].response
      smtp == answers["smtp"].response
      captcha == answers["captcha"].response
      dashboard == answers["dashboard_config"].response
  IN  /\ siteForm' = IF site.has THEN [site_name |-> site.data.site_name] ELSE siteForm
      /\ smtpForm' = IF smtp.has
                     THEN [host |-> smtp.data.host,
                           port |-> JsNumber(normalizeNumber(smtp.data.port, 587))]
                     ELSE smtpForm
      /\ captchaForm' = IF captcha.has
                        THEN [provider |-> messageOr(captcha.data.provider, <<"none">>),
                              login |-> captcha.data.login]
                        ELSE captchaForm
      /\ dashboardForm' =
           IF dashboard.has
           THEN [alert |->
                   [low_stock_threshold |->
                      JsNumber(clampNumber(dashboard.data.alert.low_stock_threshold, 1, 500, 5)),
                    out_of_stock_products_threshold |->
                      JsNumber(clampNumber(dashboard.data.alert.out_of_stock_products_threshold,
                                           1, 10000, 1)),
                    pending_payment_orders_threshold |->
                      JsNumber(clampNumber(dashboard.data.alert.pending_payment_orders_threshold,
                                           1, 100000, 20)),
                    payments_failed_threshold |->
                      JsNumber(clampNumber(dashboard.data.alert.payments_failed_threshold,
                                           1, 100000, 10))],
                 ranking |->
                   [top_products_limit |->
                      JsNumber(clampNumber(dashboard.data.ranking.top_products_limit, 1, 20, 5)),
                    top_channels_limit |->
                      JsNumber(clampNumber(dashboard.data.ranking.top_channels_limit, 1, 20, 5))]]
           ELSE dashboardForm

\* a fetchSettings that applies the answers it has when a call rejects
fetchSettingsRejected_AppliesAnswered(call, err) ==
  /\ settingsFetch' = [answers |-> [settingsFetch.answers EXCEPT ![call].state = "rejected"],
                       settled |-> TRUE]
  /\ IF settingsFetch.settled
     THEN /\ UNCHANGED <<lastMessage, lastNormalized, lastType, lastAt, items, timerMap,
                         sequence, pushed>>
          /\ UNCHANGED <<settingsLoading, siteForm, smtpForm, captchaForm, dashboardForm>>
     ELSE /\ notifyErrorIfNeeded(err, t("admin.settings.alerts.saveFailed"))
          /\ settingsLoading' = FALSE
          /\ applySettings(settingsFetch.answers)

\* one of the four calls rejects: Promise.all rejects with the first rejection,
\* which the catch block and finally handle
fetchSettingsRejected(call, err) ==
  /\ settingsFetch' = [answers |-> [settingsFetch.answers EXCEPT ![call].state = "rejected"],
                       settled |-> TRUE]
  /\ IF settingsFetch.settled
     THEN /\ UNCHANGED <<lastMessage, lastNormalized, lastType, lastAt, items, timerMap,
                         sequence, pushed>>
          /\ UNCHANGED settingsLoading
     ELSE /\ notifyErrorIfNeeded(err, t("admin.settings.alerts.saveFailed"))
          /\ settingsLoading' = FALSE
  /\ UNCHANGED <<siteForm, smtpForm, captchaForm, dashboardForm>>

\* one of the four calls resolves: Promise.all resolves with the last of four
\* answers, and the try block and finally run
fetchSettingsResolved(call, response) ==
  LET answers == [settingsFetch.answers EXCEPT ![call] = [state |-> "resolved",
                                                           response |-> response]]
      all == \A other \in SettingsCalls : answers[other].state = "resolved"
  IN  /\ settingsFetch' = [answers |-> answers, settled |-> settingsFetch.settled \/ all]
      /\ IF ~settingsFetch.settled /\ all
         THEN /\ applySettings(answers)
              /\ settingsLoading' = FALSE
         ELSE UNCHANGED <<settingsLoading, siteForm, smtpForm, captchaForm, dashboardForm>>
      /\ UNCHANGED <<lastMessage, lastNormalized, lastType, lastAt, items, timerMap,
                     sequence, pushed>>

\* saveDashboardSettings: the six clamps
normalized ==
  [alert |->
     [low_stock_threshold |-> clampNumber(dashboardForm.alert.low_stock_threshold, 1, 500, 5),
      out_of_stock_products_threshold |->
        clampNumber(dashboardForm.alert.out_of_stock_products_threshold, 1, 10000, 1),
      pending_payment_orders_threshold |->
        clampNumber(dashboardForm.alert.pending_payment_orders_threshold, 1, 100000, 20),
      payments_failed_threshold |->
        clampNumber(dashboardForm.alert.payments_failed_threshold, 1, 100000, 10)],
   ranking |->
     [top_products_limit |-> clampNumber(dashboardForm.ranking.top_products_limit, 1, 20, 5),
      top_channels_limit |-> clampNumber(dashboardForm.ranking.top_channels_limit, 1, 20, 5)]]

\* saveDashboardSettings up to its await: the form takes the clamped values and
\* the call is made with them
saveDashboardSettings ==
  /\ dashboardForm' =
       [alert |-> [field \in DOMAIN normalized.alert |-> JsNumber(normalized.alert[field])],
        ranking |-> [field \in DOMAIN normalized.ranking |-> JsNumber(normalized.ranking[field])]]
  /\ saveRequests' = Append(saveRequests, [key |-> "dashboard_config", value |-> normalized])

\* saveSettings up to its await, with the dashboard tab open
saveSettings ==
  /\ settingsLoading' = TRUE
  /\ saveDashboardSettings

\* saveSettings after its await, the call resolved
saveSettingsResolved ==
  /\ saveRequests' = Tail(saveRequests)
  /\ pushNoticeCall(t("admin.settings.alerts.saveSuccess"), "success",
                    "admin.common.operationSuccess")
  /\ settingsLoading' = FALSE

\* saveSettings after its await, the call rejected
saveSettingsRejected(err) ==
  /\ saveRequests' = Tail(saveRequests)
  /\ notifyErrorIfNeeded(err, t("admin.settings.alerts.saveFailed"))
  /\ settingsLoading' = FALSE

SettingsMounted ==
  /\ ~settingsMounted
  /\ settingsMounted' = TRUE
  /\ setup
  /\ fetchSettings
  /\ UNCHANGED <<saveRequests, dashboardEdits>>
  /\ UNCHANGED noticeVars
  /\ UNCHANGED <<adminToken, location, passwordConfirmations, passwordRequests>>
  /\ UNCHANGED outsideSettings

\* one of the four calls resolves
SettingsResolved ==
  /\ settingsMounted
  /\ \E call \in SettingsCalls :
       /\ settingsFetch.answers[call].state = "pending"
       /\ \E response \in SettingsResponses(call) : fetchSettingsResolved(call, response)
  /\ UNCHANGED <<settingsMounted, saveRequests, dashboardEdits, now>>
  /\ UNCHANGED passwordVars
  /\ UNCHANGED outsideSettings

\* one of the four calls rejects
SettingsRejected ==
  /\ settingsMounted
  /\ \E call \in SettingsCalls :
       /\ settingsFetch.answers[call].state = "pending"
       /\ \E err \in SettingsErrors : fetchSettingsRejected(call, err)
  /\ UNCHANGED <<settingsMounted, saveRequests, dashboardEdits, now>>
  /\ UNCHANGED passwordVars
  /\ UNCHANGED outsideSettings

\* a field of the dashboard form is edited
EditDashboard ==
  /\ settingsMounted
  /\ dashboardEdits < MaxDashboardEdits
  /\ dashboardEdits' = dashboardEdits + 1
  /\ \E field \in DashboardFields, value \in TypedNumbers :
       dashboardForm' = [dashboardForm EXCEPT ![field[1]][field[2]] = value]
  /\ UNCHANGED <<settingsMounted, settingsLoading, siteForm, smtpForm, captchaForm,
                 settingsFetch, saveRequests>>
  /\ UNCHANGED noticeVars
  /\ UNCHANGED passwordVars
  /\ UNCHANGED outsideSettings

\* the save button, disabled while loading, with the dashboard tab open
SaveSettings ==
  /\ settingsMounted
  /\ ~settingsLoading
  /\ Len(saveRequests) < MaxSaves
  /\ saveSettings
  /\ UNCHANGED <<settingsMounted, siteForm, smtpForm, captchaForm, settingsFetch,
                 dashboardEdits>>
  /\ UNCHANGED noticeVars
  /\ UNCHANGED passwordVars
  /\ UNCHANGED outsideSettings

\* the updateSettings call resolves
SaveResolved ==
  /\ saveRequests # <<>>
  /\ saveSettingsResolved
  /\ UNCHANGED <<settingsMounted, siteForm, smtpForm, captchaForm, dashboardForm,
                 settingsFetch, dashboardEdits, now>>
  /\ UNCHANGED passwordVars
  /\ UNCHANGED outsideSettings

\* the updateSettings call rejects
SaveRejected ==
  /\ saveRequests # <<>>
  /\ \E err \in SettingsErrors : saveSettingsRejected(err)
  /\ UNCHANGED <<settingsMounted, siteForm, smtpForm, captchaForm, dashboardForm,
                 settingsFetch, dashboardEdits, now>>
  /\ UNCHANGED passwordVars
  /\ UNCHANGED outsideSettings

SettingsInit ==
  /\ settingsMounted = FALSE
  /\ settingsLoading = FALSE
  /\ siteForm = NotCreated
  /\ smtpForm = NotCreated
  /\ captchaForm = NotCreated
  /\ dashboardForm = NotCreated
  /\ settingsFetch = NotCreated
  /\ saveRequests = <<>>
  /\ dashboardEdits = 0

(***************************************************************************)
(* The settings view: the change of the password                           *)
(***************************************************************************)

\* the number of updatePassword calls made
MaxPasswordCalls == 1

\* what is typed into a field of the password form
PasswordInputs == {<<>>, <<"a">>, <<"b">>}

PasswordFields == {"old", "new", "confirm"}

\* changePassword without the comparison of the new password with its repetition
changePassword_WithoutComparison ==
  IF passwordForm.old = <<>> \/ passwordForm.new = <<>> \/ passwordForm.confirm = <<>>
  THEN /\ pushNoticeCall(t("admin.settings.alerts.passwordRequired"), "error",
                         "common.api.requestFailed")
       /\ UNCHANGED passwordConfirmations
  ELSE /\ passwordConfirmations' = passwordConfirmations + 1
       /\ UNCHANGED <<lastMessage, lastNormalized, lastType, lastAt, items, timerMap,
                      sequence, pushed>>

\* changePassword up to its first await: the confirmation is asked for
changePassword ==
  IF passwordForm.old = <<>> \/ passwordForm.new = <<>> \/ passwordForm.confirm = <<>>
  THEN /\ pushNoticeCall(t("admin.settings.alerts.passwordRequired"), "error",
                         "common.api.requestFailed")
       /\ UNCHANGED passwordConfirmations
  ELSE IF passwordForm.new # passwordForm.confirm
  THEN /\ pushNoticeCall(t("admin.settings.alerts.passwordMismatch"), "error",
                         "common.api.requestFailed")
       /\ UNCHANGED passwordConfirmations
  ELSE /\ passwordConfirmations' = passwordConfirmations + 1
       /\ UNCHANGED <<lastMessage, lastNormalized, lastType, lastAt, items, timerMap,
                      sequence, pushed>>

\* changePassword after confirmAction answered, up to its second await
changePasswordConfirmed(confirmed) ==
  /\ passwordConfirmations' = passwordConfirmations - 1
  /\ IF ~confirmed
     THEN UNCHANGED <<settingsLoading, passwordRequests>>
     ELSE /\ settingsLoading' = TRUE
          /\ passwordRequests' = Append(passwordRequests,
                                        [old_password |-> passwordForm.old,
                                         new_password |-> passwordForm.new])

\* changePassword after updatePassword resolved; VITE_ADMIN_PATH is empty
changePasswordResolved ==
  /\ passwordRequests' = Tail(passwordRequests)
  /\ pushNoticeCall(t("admin.settings.alerts.passwordSuccess"), "success",
                    "admin.common.operationSuccess")
  /\ adminToken' = FALSE
  /\ location' = "/login"
  /\ settingsLoading' = FALSE

\* changePassword after updatePassword rejected
changePasswordRejected(err) ==
  /\ passwordRequests' = Tail(passwordRequests)
  /\ notifyErrorIfNeeded(err, t("admin.settings.alerts.passwordFailed"))
  /\ settingsLoading' = FALSE
  /\ UNCHANGED <<adminToken, location>>

\* the settings view is on the screen, with no confirmation in front of it
OnSettings == settingsMounted /\ location = "/settings" /\ passwordConfirmations = 0

\* a field of the password form is filled in
TypePassword ==
  /\ OnSettings
  /\ \E field \in PasswordFields, value \in PasswordInputs :
       passwordForm' = [passwordForm EXCEPT ![field] = value]
  /\ UNCHANGED <<adminToken, location, passwordConfirmations, passwordRequests>>
  /\ UNCHANGED <<noticeVars, settingsVars>>
  /\ UNCHANGED outsideSettings

\* the button of the security tab
ChangePassword ==
  /\ OnSettings
  /\ Len(passwordRequests) < MaxPasswordCalls
  /\ changePassword
  /\ UNCHANGED <<passwordForm, adminToken, location, passwordRequests, now>>
  /\ UNCHANGED settingsVars
  /\ UNCHANGED outsideSettings

\* confirmAction is answered
PasswordConfirmAnswered ==
  /\ passwordConfirmations > 0
  /\ \E confirmed \in BOOLEAN : changePasswordConfirmed(confirmed)
  /\ UNCHANGED <<passwordForm, adminToken, location>>
  /\ UNCHANGED <<settingsMounted, siteForm, smtpForm, captchaForm, dashboardForm,
                 settingsFetch, saveRequests, dashboardEdits>>
  /\ UNCHANGED noticeVars
  /\ UNCHANGED outsideSettings

\* the updatePassword call resolves
PasswordResolved ==
  /\ passwordRequests # <<>>
  /\ changePasswordResolved
  /\ UNCHANGED <<passwordForm, passwordConfirmations, now>>
  /\ UNCHANGED <<settingsMounted, siteForm, smtpForm, captchaForm, dashboardForm,
                 settingsFetch, saveRequests, dashboardEdits>>
  /\ UNCHANGED outsideSettings

\* the updatePassword call rejects
PasswordRejected ==
  /\ passwordRequests # <<>>
  /\ \E err \in SettingsErrors : changePasswordRejected(err)
  /\ UNCHANGED <<passwordForm, passwordConfirmations, now>>
  /\ UNCHANGED <<settingsMounted, siteForm, smtpForm, captchaForm, dashboardForm,
                 settingsFetch, saveRequests, dashboardEdits>>
  /\ UNCHANGED outsideSettings

PasswordInit ==
  /\ passwordForm = NotCreated
  /\ adminToken = TRUE
  /\ location = "/settings"
  /\ passwordConfirmations = 0
  /\ passwordRequests = <<>>

RestInit == StatusInit /\ LoginInit /\ SettingsInit /\ PasswordInit

ViewInit == DetailInit /\ UsersInit /\ CouponsInit /\ RestInit

(***************************************************************************)
(* Specifications                                                          *)
(***************************************************************************)

Init == NoticeInit /\ TextIdle /\ ListInit /\ ViewInit

\* the notify layer in front of the store
NotifyNext ==
  \/ notifyError
  \/ notifySuccess
  \/ notifyInfo
  \/ Clear
  \/ ClearAll
  \/ Tick

SpecNotify == Init /\ [][NotifyNext]_vars

\* the notify layer under streams of pushes
StreamNext ==
  \/ notifyError
  \/ notifySuccess
  \/ TickStream

SpecStream == Init /\ [][StreamNext]_vars

\* the notice store under its direct callers
StoreNext ==
  \/ Show
  \/ Remove
  \/ Clear
  \/ ClearAll
  \/ TimerExpires
  \/ Tick

SpecStore == Init /\ [][StoreNext]_vars

\* the notice store under a burst of calls
BurstNext ==
  \/ ShowBurst
  \/ Remove
  \/ Clear
  \/ ClearAll
  \/ TimerExpires
  \/ Tick

SpecBurst == Init /\ [][BurstNext]_vars

\* the notice store with its timers: time does not stop while a timer waits, and the
\* callback of a timer that is due is run
TimersNext ==
  \/ ShowBurst
  \/ Remove
  \/ Clear
  \/ ClearAll
  \/ TimerExpires
  \/ TickDue

SpecTimers ==
  /\ Init
  /\ [][TimersNext]_vars
  /\ WF_vars(TickDue)
  /\ WF_vars(TimerExpires)

\* the normalisers
TextNext ==
  \/ EditCase
  \/ EditInsert
  \/ EditDelete
  \/ EditPrepend

InitText == NoticeInit /\ TextInit /\ ListInit /\ ViewInit

SpecText == InitText /\ [][TextNext]_vars

\* the orders list under its pager and its route
PageNext ==
  \/ onMounted
  \/ WatchUserId
  \/ ChangePage
  \/ refresh
  \/ Resolved
  \/ Rejected

SpecPage == Init /\ [][PageNext]_vars

\* the orders list under its jump input
JumpNext ==
  \/ onMounted
  \/ SetJumpPage
  \/ jumpToPage
  \/ Resolved
  \/ Rejected

SpecJump == Init /\ [][JumpNext]_vars

\* the orders list under its filters, every call succeeding
FilterNext ==
  \/ onMounted
  \/ UpdateFilter
  \/ refresh
  \/ Resolved

SpecFilter == Init /\ [][FilterNext]_vars

\* the dialogs of the orders view over a list that was fetched once
DetailNext ==
  \/ onMounted
  \/ Resolved
  \/ OpenDetail
  \/ OpenFulfillment
  \/ OpenChildFulfillment
  \/ WatchOrderId
  \/ CloseDetail
  \/ CloseFulfillment
  \/ SetPayload
  \/ SubmitFulfillment
  \/ FulfillmentCreated
  \/ FulfillmentRejected
  \/ DetailResolved
  \/ DetailRejected

SpecDetail == Init /\ [][DetailNext]_vars

\* the users view
UsersNext ==
  \/ UsersMounted
  \/ RefreshUsers
  \/ ToggleSelect
  \/ ToggleSelectAll
  \/ BatchUpdateStatus
  \/ ConfirmAnswered
  \/ BatchResolved
  \/ BatchRejected
  \/ UsersResolved
  \/ UsersRejected

SpecUsers == Init /\ [][UsersNext]_vars

\* the coupons view
CouponsNext ==
  \/ CouponsMounted
  \/ WatchCouponId
  \/ OpenCreateModal
  \/ OpenEditModal
  \/ CloseModal
  \/ SetScope
  \/ HandleSubmit
  \/ SubmitResolved
  \/ SubmitRejected
  \/ CouponsResolved
  \/ CouponsRejected

SpecCoupons == Init /\ [][CouponsNext]_vars

\* the orders view with the status of its rows
StatusNext ==
  \/ onMounted
  \/ StatusListResolved
  \/ Rejected
  \/ SelectStatus
  \/ UpdateStatus
  \/ MarkCompleted
  \/ StatusUpdated
  \/ StatusUpdateRejected

SpecStatus == Init /\ [][StatusNext]_vars

\* the login view
LoginNext ==
  \/ LoginMounted
  \/ ConfigResolved
  \/ ConfigRejected
  \/ TypeCredentials
  \/ SetCaptcha
  \/ SetTurnstile
  \/ Submit
  \/ LoginResolved
  \/ LoginRejected

SpecLogin == Init /\ [][LoginNext]_vars

\* the settings view while its settings are fetched
SettingsNext ==
  \/ SettingsMounted
  \/ SettingsResolved
  \/ SettingsRejected
  \/ EditDashboard

SpecSettings == Init /\ [][SettingsNext]_vars

\* the settings view with its dashboard tab open
DashboardNext ==
  \/ SettingsMounted
  \/ SettingsResolved
  \/ EditDashboard
  \/ SaveSettings
  \/ SaveResolved
  \/ SaveRejected

SpecDashboard == Init /\ [][DashboardNext]_vars

\* the settings view with its security tab open
PasswordNext ==
  \/ SettingsMounted
  \/ TypePassword
  \/ ChangePassword
  \/ PasswordConfirmAnswered
  \/ PasswordResolved
  \/ PasswordRejected

SpecPassword == Init /\ [][PasswordNext]_vars

(***************************************************************************)
(* Properties of the notification layer                                    *)
(***************************************************************************)

\* the normalised texts are non-empty and one contains the other
SimilarCores(a, b) ==
  LET x == simplifyMessage(a)
      y == simplifyMessage(b)
  IN  x # <<>> /\ y # <<>> /\ (includes(x, y) \/ includes(y, x))

SimilarNoticeCores(a, b) ==
  LET x == simplifyNoticeMessage(a)
      y == simplifyNoticeMessage(b)
  IN  x # <<>> /\ y # <<>> /\ (includes(x, y) \/ includes(y, x))

\* this step is a call of notifyError, notifySuccess or notifyInfo
PushStep == pushed'.n = pushed.n + 1

\* the push before this one had the same type, was made at most 1500 ms ago
\* and had the same trimmed text or a similar core
PrecedingDuplicate ==
  /\ pushed.n >= 1
  /\ pushed.type = pushed'.type
  /\ pushed'.at - pushed.at <= 1500
  /\ (pushed.text = pushed'.text \/ SimilarCores(pushed.text, pushed'.text))

\* this step appends the pushed message to the visible notices
Displayed ==
  /\ sequence' = sequence + 1
  /\ Len(items') >= 1
  /\ items'[Len(items')] = [id |-> sequence', message |-> pushed'.text, type |-> pushed'.type]

\* before this step a notice of the pushed type with a similar core is visible
SimilarVisible ==
  \E n \in 1..Len(items) :
    /\ items[n].type = pushed'.type
    /\ SimilarNoticeCores(items[n].message, pushed'.text)

\* C1: a push with non-blank content is dropped before it reaches the store
\* exactly when the push before it had the same type, was made at most
\* 1500 ms earlier and had an equal trimmed text or a similar core; the first
\* push is never dropped, and a dropped push leaves the store as it is.
C1_DropRule ==
  [][PushStep =>
       /\ (pushed'.dropped <=> PrecedingDuplicate)
       /\ (pushed'.dropped => UNCHANGED <<items, timerMap, sequence>>)]_vars

\* a push is dropped exactly 1500 ms after the push before it
C1_Witness == pushed.dropped /\ pushed.at = StartTime + 1500

\* C2: no two visible notices of the same type have non-empty normalised
\* texts of which one equals or contains the other.
C2_NoSimilarVisiblePair ==
  \A i, j \in 1..Len(items) :
    (i # j /\ items[i].type = items[j].type)
      => ~SimilarNoticeCores(items[i].message, items[j].message)

\* two notices of one type with different non-empty cores are visible
C2_Witness ==
  \E i, j \in 1..Len(items) :
    /\ i # j
    /\ items[i].type = items[j].type
    /\ simplifyNoticeMessage(items[i].message) # <<>>
    /\ simplifyNoticeMessage(items[j].message) # <<>>

\* C3 as stated: a message pushed more than 1500 ms after the push before it
\* is added to the visible notices.
C3_ShownAfterWindow ==
  [][(PushStep /\ pushed.n >= 1 /\ pushed'.at - pushed.at > 1500) => Displayed]_vars

\* C3 as amended: a message pushed more than 1500 ms after the push before it
\* is not dropped by the notify layer, and the store adds it to the visible
\* notices exactly when no notice of its type with a similar core is visible.
C3_PassedAfterWindow ==
  [][(PushStep /\ pushed.n >= 1 /\ pushed'.at - pushed.at > 1500) =>
       /\ ~pushed'.dropped
       /\ (Displayed <=> ~SimilarVisible)]_vars

\* a push made after the window was displayed, an earlier notice being gone
C3_Witness ==
  /\ pushed.n >= 2
  /\ pushed.at > StartTime + 1500
  /\ ~pushed.dropped
  /\ sequence >= 2
  /\ Len(items) = 1
  /\ items[1] = [id |-> sequence, message |-> pushed.text, type |-> pushed.type]

\* C4: a pushed message is displayed whatever was pushed or is visible under
\* another type, provided no similar notice of its own type is visible and the
\* push before it was not a duplicate of its own type within 1500 ms.
C4_NoCrossTypeSuppression ==
  [][(PushStep /\ ~SimilarVisible /\ ~PrecedingDuplicate) => Displayed]_vars

\* the message just pushed is visible next to a similar notice of another
\* type that was shown at the same instant
C4_Witness ==
  \E i, j \in 1..Len(items) :
    /\ items[i].type # items[j].type
    /\ SimilarNoticeCores(items[i].message, items[j].message)
    /\ items[j] = [id |-> sequence, message |-> pushed.text, type |-> pushed.type]
    /\ ~pushed.dropped
    /\ items[i].id \in DOMAIN timerMap
    /\ items[j].id \in DOMAIN timerMap
    /\ timerMap[items[i].id] = timerMap[items[j].id]

\* the text's edit neither creates nor destroys a leading failure prefix, or
\* puts a failure prefix in front of a text that has none
PrefixPreserved ==
  \/ /\ EditCase \/ EditInsert \/ EditDelete
     /\ matchesFailurePrefix(trim(text)) <=> matchesFailurePrefix(trim(text'))
  \/ /\ EditPrepend
     /\ ~matchesFailurePrefix(trim(text))

\* C5 as stated: the two normalisers agree on every text, and texts that
\* differ only in letter case, whitespace, punctuation or one leading failure
\* prefix followed by a colon or dash have the same core.
C5_SameCore == [](core = noticeCore) /\ [][core' = core]_vars

\* C5 as amended: the two normalisers agree on every text, and such texts
\* have the same core when the difference neither creates nor destroys a
\* leading failure prefix, or when a failure prefix is put in front of a text
\* that does not begin with one.
C5_SameCoreWherePrefixPreserved ==
  [](core = noticeCore) /\ [][PrefixPreserved => core' = core]_vars

\* a twice edited text that begins with a failure prefix and still has the
\* core of the text it was made from
C5_Witness == edits = 2 /\ matchesFailurePrefix(trim(text)) /\ core = MsgOk

\* C6 as stated: no work is ever scheduled to run later.
C6_NoDeferredWork == DOMAIN timerMap = {}

\* C6 as amended: the one piece of deferred work is the timeout show sets for
\* a notice: when it runs the notice is visible and due, and it removes that
\* notice and its timer entry and changes nothing else.
C6_OnlyNoticeTimeouts ==
  [][TimerExpires =>
       \E id \in DOMAIN timerMap :
         /\ now >= timerMap[id]
         /\ \E n \in 1..Len(items) : items[n].id = id
         /\ Len(items') = Len(items) - 1
         /\ \A n \in 1..Len(items') : items'[n].id # id
         /\ DOMAIN timerMap' = DOMAIN timerMap \ {id}
         /\ UNCHANGED <<now, lastMessage, lastNormalized, lastType, lastAt, sequence>>]_vars

\* the timeout of a visible notice is due
C6_Witness ==
  \E n \in 1..Len(items) :
    /\ items[n].id \in DOMAIN timerMap
    /\ now >= timerMap[items[n].id]

(***************************************************************************)
(* Properties of the list views                                            *)
(***************************************************************************)

\* one more call awaits its response, the last one, and it asks for page
IssuesRequest(page) ==
  /\ Len(requests') = Len(requests) + 1
  /\ SubSeq(requests', 1, Len(requests)) = requests
  /\ requests'[Len(requests')].params.page = page
  /\ loading'

NoRequest == requests' = requests

\* C7: changePage(page) issues a list request when 1 <= page <= pagination.total_page,
\* and for any other page it issues none and leaves rows, pagination and loading
\* unchanged.
C7_ChangePageInRangeOnly ==
  [][\A page \in PageArgs :
       (mounted /\ changePage(page) /\ UNCHANGED <<filters, jumpPage>>) =>
         IF 1 <= page /\ page <= pagination.total_page
         THEN IssuesRequest(page)
         ELSE NoRequest /\ UNCHANGED <<orders, pagination, loading>>]_vars

\* changePage has asked for the page after the one shown, out of three
C7_Witness ==
  \E i \in DOMAIN requests :
    /\ requests[i].params.page = requests[i].before.page + 1
    /\ requests[i].params.page <= requests[i].before.total_page
    /\ requests[i].before.total_page = 3

Min(a, b) == IF a < b THEN a ELSE b

Max(a, b) == IF a < b THEN b ELSE a

\* min(max(floor(input), 1), total_page) for an input that is a number
ClaimedTarget(raw, totalPage) ==
  IF raw.kind = "Infinity" THEN totalPage
  ELSE IF raw.kind = "-Infinity" THEN Min(1, totalPage)
  ELSE Min(Max(raw.num \div raw.den, 1), totalPage)

\* C8: jumpToPage does nothing when the jump input is empty or not a number;
\* otherwise it issues a list request for target = min(max(floor(input), 1),
\* total_page) exactly when target differs from the current page and lies in
\* [1, total_page]; it never requests a page outside [1, total_page] nor the
\* current page.
C8_JumpClampsAndSkipsCurrent ==
  [][jumpToPage =>
       LET raw == Number(jumpPage)
           target == ClaimedTarget(raw, pagination.total_page)
       IN  /\ IF jumpPage = <<>> \/ raw.kind = "NaN"
              THEN UNCHANGED vars
              ELSE IF /\ target # pagination.page
                      /\ 1 <= target
                      /\ target <= pagination.total_page
                   THEN IssuesRequest(target)
                   ELSE UNCHANGED vars
           /\ ~NoRequest =>
                /\ requests'[Len(requests')].params.page \in 1 .. pagination.total_page
                /\ requests'[Len(requests')].params.page # pagination.page]_vars

\* a jump to 99 has asked for the last of three pages while another page is shown
C8_Witness ==
  /\ jumpPage = <<"9", "9">>
  /\ \E i \in DOMAIN requests :
       /\ requests[i].params.page = 3
       /\ requests[i].before.total_page = 3
       /\ requests[i].before.page # 3

\* a filter value as the claim has it sent: the sentinel and the empty string
\* are absent
SentOrAbsent(value) == IF value = <<>> \/ value = AllSentinel THEN undefined ELSE value

\* the query carries the filters f; the two dates go through toRFC3339
CarriesFilters(params, f) ==
  /\ params.status = SentOrAbsent(f.status)
  /\ params.user_id = SentOrAbsent(f.userId)
  /\ params.order_no = SentOrAbsent(f.orderNo)
  /\ params.guest_email = SentOrAbsent(f.guestEmail)
  /\ params.created_from = toRFC3339(f.createdFrom)
  /\ params.created_to = toRFC3339(f.createdTo)

\* C9: a filter change issues a list request for page 1 that carries the filter
\* values as the change leaves them, the sentinel and empty strings absent, and
\* the page_size of the current pagination; refresh issues a request for the
\* current pagination.page with the same filters.
C9_SearchAndRefreshQuery ==
  [][/\ UpdateFilter =>
          /\ IssuesRequest(1)
          /\ CarriesFilters(requests'[Len(requests')].params, filters')
          /\ requests'[Len(requests')].params.page_size = pagination.page_size
     /\ refresh =>
          /\ IssuesRequest(pagination.page)
          /\ CarriesFilters(requests'[Len(requests')].params, filters)
          /\ requests'[Len(requests')].params.page_size = pagination.page_size]_vars

\* the status filter holds the sentinel and a call made with the server's page
\* size carries no status
C9_Witness ==
  /\ filters.status = AllSentinel
  /\ \E i \in DOMAIN requests :
       /\ requests[i].params.status = undefined
       /\ requests[i].params.page = 1
       /\ requests[i].params.page_size = 10

\* a call has just been answered by a failure
FailureHandled == Len(requests') < Len(requests) /\ outcome'.how = "rejected"

\* a call has just been answered by a response without a pagination object
BareSuccessHandled ==
  Len(requests') < Len(requests) /\ outcome'.how = "resolved" /\ ~outcome'.hasPagination

C11_LoadingIffInFlight == mounted => (loading <=> requests # <<>>)

\* C12: once every list request made has been answered successfully, the rows
\* and the pagination shown are those the view showed for the answer to the
\* most recently made request, whatever order the answers arrived in.
C12_NewestRequestWins ==
  (mounted /\ requests = <<>>) =>
    /\ outcome.newest.answered
    /\ orders = outcome.newest.orders
    /\ pagination = outcome.newest.pagination

\* the push repeats the type and the trimmed text of the push before it at
\* most 1500 ms after it
ContinuesStream ==
  /\ pushed.n >= 1
  /\ pushed'.type = pushed.type
  /\ pushed'.text = pushed.text
  /\ pushed'.at - pushed.at <= 1500

\* C13: every push with non-blank content, dropped or not, becomes the notify
\* layer's record of the last message (type, text, core, time), and a push
\* that repeats the type and text of the push before it at most 1500 ms later
\* does not reach the notice store, however long ago the stream began.
C13_StreamOnlyFirst ==
  [][PushStep =>
       /\ lastType' = pushed'.type
       /\ lastMessage' = pushed'.text
       /\ lastNormalized' = simplifyMessage(pushed'.text)
       /\ lastAt' = now
       /\ ContinuesStream =>
            pushed'.dropped /\ UNCHANGED <<items, timerMap, sequence>>]_vars

\* the third push of a stream is dropped 3000 ms after the stream's first push,
\* the only one that reached the store
C13_Witness ==
  /\ pushed.n = 3
  /\ pushed.dropped
  /\ pushed.at - pushed.since = 3000
  /\ sequence = 1

\* a createFulfillment call is made
IssuesFulfillment == Len(fulfillmentRequests') > Len(fulfillmentRequests)

\* C14: every createFulfillment call that submitFulfillment makes carries as
\* order_id the id of the order openFulfillment was most recently called for,
\* whatever the order in which the getOrder calls were answered.
C14_SubmitsOpenedOrder ==
  [][IssuesFulfillment =>
       fulfillmentRequests'[Len(fulfillmentRequests')].order_id = submission.opened]_vars

\* a createFulfillment call resolves
FulfillmentSucceeds ==
  /\ Len(fulfillmentRequests') < Len(fulfillmentRequests)
  /\ fulfillmentSuccess' = t("admin.orders.fulfillmentSuccess")

\* submitFulfillment awaits the fetchOrderDetail it called
AwaitsDetail == \E request \in BagToSet(detailRequests) : request.awaitedBy = "submitFulfillment"

\* a submitFulfillment whose createFulfillment call resolved returns
SubmitReturns ==
  \/ FulfillmentSucceeds /\ ~AwaitsDetail'
  \/ AwaitsDetail /\ ~AwaitsDetail'

\* a getOrders call for the current page is made
Refetches ==
  /\ Len(requests') = Len(requests) + 1
  /\ requests'[Len(requests')].params.page = pagination.page

\* C15: when submitFulfillment returns after its createFulfillment call
\* resolved, fulfillmentError is empty, the list was fetched again for the
\* current page and fulfillmentSubmitting is false, whatever happened while the
\* call was awaited.
C15_SuccessRefetches ==
  [][SubmitReturns =>
       /\ fulfillmentError' = <<>>
       /\ Refetches
       /\ ~fulfillmentSubmitting']_vars

\* C20: the detail dialog and the fulfillment dialog are never open together,
\* whatever the order of the handlers that open, close and submit and of the
\* responses to their calls.
C20_OneDialogAtATime == ~(showDetail /\ showFulfillmentModal)

\* the fulfillment of a child order was submitted from the detail dialog of
\* its parent, the call resolved and the detail dialog is open again
C20_Witness ==
  /\ showDetail
  /\ ~showFulfillmentModal
  /\ fulfillmentSuccess = t("admin.orders.fulfillmentSuccess")
  /\ submission.opened = 3
  /\ AwaitsDetail

\* C16: every batchUpdateUserStatus call carries a user_ids list that is not
\* empty and is the selection as it was when the confirmation was asked for,
\* also when a getUsers call was answered in between.
C16_BatchCarriesAskedSelection ==
  \A i \in DOMAIN batchRequests :
    /\ batchRequests[i].user_ids # <<>>
    /\ batchRequests[i].user_ids = batchRequests[i].asked

\* a piece of the scope field is a finite number above zero
HasScope(raw) ==
  \E k \in DOMAIN splitScope(raw) :
    LET item == Number(splitScope(raw)[k]) IN item.kind = "finite" /\ item.num > 0

\* one updateCoupon or createCoupon call is made and nothing else is requested
IssuesCouponCall(made) ==
  /\ submitRequests' = Append(submitRequests, made)
  /\ couponRequests' = couponRequests

\* a getCoupons call for page 1 is made
RefetchesCoupons ==
  \E request \in BagToSet(couponRequests') :
    /\ request.page = 1
    /\ couponRequests' = couponRequests (+) SetToBag({request})

\* C17: handleSubmit makes no call unless the scope field holds a finite number
\* above zero; with one it makes exactly one call, updateCoupon for the coupon
\* being edited when isEditing is set and editingId is not null, createCoupon
\* otherwise. When the call resolves the modal is closed and page 1 is fetched;
\* when it rejects the modal is left as it is, error is set, the form is
\* unchanged and nothing is fetched.
C17_SubmitCoupon ==
  [][/\ HandleSubmit =>
          IF ~HasScope(form.scope_ref_ids)
          THEN submitRequests' = submitRequests /\ couponRequests' = couponRequests
          ELSE \E made \in {submitRequests'[Len(submitRequests')]} :
                 /\ IssuesCouponCall(made)
                 /\ IF isEditing /\ editingId # null
                    THEN made.call = "updateCoupon" /\ made.id = editingId
                    ELSE made.call = "createCoupon"
     /\ SubmitResolved => ~showModal' /\ RefetchesCoupons
     /\ SubmitRejected =>
          /\ showModal' = showModal
          /\ couponsError' # <<>>
          /\ form' = form
          /\ couponRequests' = couponRequests]_vars

\* coupon 5 is being edited, the scope field was filled with pieces of which
\* two are numbers above zero, and the updateCoupon call for coupon 5 was made
C17_Witness ==
  /\ showModal
  /\ isEditing
  /\ editingId = 5
  /\ \E i \in DOMAIN submitRequests :
       /\ submitRequests[i].call = "updateCoupon"
       /\ submitRequests[i].id = 5
       /\ submitRequests[i].payload.scope_ref_ids = <<Finite(3, 1), Finite(4, 1)>>

\* the ids of the visible notices
VisibleIds == {items[i].id : i \in DOMAIN items}

\* a step in which a notice appears in the list
ShowsNotice == VisibleIds' \ VisibleIds # {}

\* C18: whatever the store's operations and the timers do, the list holds at most 5
\* notices in strictly increasing order of id, every id a show gives is greater than
\* all ids given before, and a show on a full list removes the head together with its
\* pending timer, moves the others up and keeps the new notice as the last one.
C18_AtMostFiveInOrder ==
  [][/\ Len(items') <= 5
     /\ \A i, j \in DOMAIN items' : i < j => items'[i].id < items'[j].id
     /\ sequence' >= sequence
     /\ \A id \in VisibleIds' : id <= sequence'
     /\ \A id \in VisibleIds' \ VisibleIds : id > sequence
     /\ (Len(items) = 5 /\ ShowsNotice) =>
           /\ items' = Append(Tail(items), items'[Len(items')])
           /\ items'[Len(items')].id = sequence'
           /\ Head(items).id \notin DOMAIN timerMap'
           /\ DOMAIN timerMap \ {Head(items).id} \subseteq DOMAIN timerMap']_vars

\* six notices were shown at one instant, the first with a timer: the list holds the
\* last five and the timer of the first is gone
C18_Witness ==
  /\ now = StartTime
  /\ sequence = 6
  /\ [i \in DOMAIN items |-> items[i].id] = <<2, 3, 4, 5, 6>>
  /\ DOMAIN timerMap = {2, 6}

\* every pending timer belongs to a visible notice
TimersOfVisible == DOMAIN timerMap \subseteq VisibleIds

\* a call of show(msg, "info", duration) that shows a notice
IsShow(msg, duration) ==
  LET store == show(msg, "info", duration)
  IN  /\ sequence' = sequence + 1
      /\ store.sequence = sequence'
      /\ items' = store.items
      /\ timerMap' = store.timerMap

\* C19: the pending timers always belong to visible notices, whichever way notices
\* leave the list; a timer starts only with the notice a show adds, and only when the
\* duration is positive; the expiry of a timer takes exactly its own notice, one whose
\* timer is due, so that a notice without a timer is never removed by a timer; and
\* every notice that has a timer eventually leaves the list: its timer ends only
\* together with the notice, and no timer stays pending for ever.
C19_TimersRemoveTheirNotices ==
  /\ []TimersOfVisible
  /\ [][/\ DOMAIN timerMap' \ DOMAIN timerMap \subseteq VisibleIds' \ VisibleIds
        /\ DOMAIN timerMap \ DOMAIN timerMap' \subseteq VisibleIds \ VisibleIds'
        /\ \A msg \in BurstMessages, duration \in BurstDurations :
             IsShow(msg, duration) => (sequence' \in DOMAIN timerMap' <=> duration > 0)
        /\ TimerExpires =>
             \E id \in DOMAIN timerMap :
                /\ now >= timerMap[id]
                /\ id \in VisibleIds
                /\ items' = SelectSeq(items, LAMBDA item : item.id # id)
                /\ DOMAIN timerMap' = DOMAIN timerMap \ {id}]_vars
  /\ \A id \in 1..MaxBurst : []<>(id \notin DOMAIN timerMap)

\* the second notice had a timer and is gone after a second and a half, no timer is
\* pending, and the first notice, shown without a timer, is still there
C19_Witness ==
  /\ sequence = 2
  /\ VisibleIds = {1}
  /\ DOMAIN timerMap = {}
  /\ now = StartTime + 1500

\* a step in which an updateOrderStatus call is made, and the call
IssuesStatusCall == Len(statusRequests') > Len(statusRequests)

StatusCall == statusRequests'[Len(statusRequests')]

\* the listed row of an id
Listed(id) == orders[CHOOSE k \in DOMAIN orders : orders[k].id = id]

\* C21: a call updateStatus makes is for a listed order whose status is neither
\* completed nor canceled, with the status selected for it, which is neither empty nor
\* the listed one; a call markCompleted makes is for a listed order whose status is
\* delivered, with the status completed.
C21_TerminalStatuses ==
  [][/\ (UpdateStatus /\ IssuesStatusCall) =>
          /\ \E k \in DOMAIN orders : orders[k].id = StatusCall.id
          /\ Listed(StatusCall.id).status \notin {"completed", "canceled"}
          /\ StatusCall.payload.status = statusEdits[StatusCall.id]
          /\ StatusCall.payload.status \notin {"", Listed(StatusCall.id).status}
     /\ (MarkCompleted /\ IssuesStatusCall) =>
          /\ \E k \in DOMAIN orders : orders[k].id = StatusCall.id
          /\ Listed(StatusCall.id).status = "delivered"
          /\ StatusCall.payload.status = "completed"]_vars

\* the list shows orders of every status, and a call to move order 1 from paid to
\* delivered awaits its response
C21_Witness ==
  /\ orders = StatusRows
  /\ statusRequests = <<[id |-> 1, payload |-> [status |-> "delivered"]]>>

\* a step in which a login call is made, and the call
IssuesLogin == Len(loginRequests') > Len(loginRequests)

LoginCall == loginRequests'[Len(loginRequests')]

\* the captcha input the provider requires is missing
CaptchaInputMissing ==
  \/ captchaProvider = "image" /\ (captchaPayload.captcha_id = "" \/ captchaPayload.captcha_code = "")
  \/ captchaProvider = "turnstile" /\ turnstileToken = ""

DisplayedIds == {users[k].id : k \in DOMAIN users}

SelectedSet == {selectedIds[k] : k \in DOMAIN selectedIds}

\* C23: the selection holds ids of displayed users only; every getUsers call that
\* completes, resolved or rejected, leaves it empty; toggleSelectAll makes it the ids
\* of all displayed users, or empty when all of them were selected.
C23_SelectionIsDisplayed ==
  [][/\ SelectedSet' \subseteq DisplayedIds'
     /\ (UsersResolved \/ UsersRejected) => selectedIds' = <<>>
     /\ ToggleSelectAll =>
          selectedIds' = IF users # <<>> /\ DisplayedIds \subseteq SelectedSet
                         THEN <<>>
                         ELSE [k \in DOMAIN users |-> users[k].id]]_vars

\* one of the four calls of fetchSettings has rejected
AnyRejected == \E call \in SettingsCalls : settingsFetch.answers[call].state = "rejected"

FormsUnchanged == UNCHANGED <<siteForm, smtpForm, captchaForm, dashboardForm>>

\* the first rejection of a call of fetchSettings, with this error
FirstRejection(call, err) ==
  /\ settingsMounted
  /\ ~settingsFetch.settled
  /\ settingsFetch.answers[call].state = "pending"
  /\ fetchSettingsRejected(call, err)

\* C24: once one of the four calls of fetchSettings has rejected, no answer to any of
\* them changes a form, before or after; the rejection leaves loading false; and the
\* first rejection notifies the error's message, or the fallback when it has none, as
\* an error, unless the error is marked as notified, when no notice is pushed.
C24_FetchAllOrNothing ==
  [][/\ ((SettingsResolved \/ SettingsRejected) /\ AnyRejected') => FormsUnchanged
     /\ SettingsRejected => ~settingsLoading'
     /\ \A call \in SettingsCalls, err \in SettingsErrors :
          FirstRejection(call, err) =>
            IF err.notified THEN UNCHANGED noticeVars
            ELSE /\ pushed'.n = pushed.n + 1
                 /\ pushed'.type = "error"
                 /\ pushed'.text = messageOr(err.message, t("admin.settings.alerts.saveFailed"))]_vars

\* the dashboard settings were answered, a field of the dashboard form was edited, and
\* the SMTP call rejected: the forms hold what they held, the error was notified and
\* loading is false
C24_Witness ==
  /\ settingsMounted
  /\ settingsFetch.answers["dashboard_config"].state = "resolved"
  /\ settingsFetch.answers["dashboard_config"].response.has
  /\ settingsFetch.answers["smtp"].state = "rejected"
  /\ settingsFetch.answers["site_config"].state = "resolved"
  /\ dashboardForm.ranking.top_products_limit = JsString(<<>>)
  /\ siteForm = [site_name |-> <<>>]
  /\ pushed.n = 1 /\ pushed.type = "error"
  /\ ~settingsLoading

\* the least and the greatest value of a field of the dashboard settings, and the
\* value taken when there is none
Limits(field) ==
  IF field = <<"alert", "low_stock_threshold">> THEN [min |-> 1, max |-> 500, fallback |-> 5]
  ELSE IF field = <<"alert", "out_of_stock_products_threshold">>
       THEN [min |-> 1, max |-> 10000, fallback |-> 1]
  ELSE IF field = <<"alert", "pending_payment_orders_threshold">>
       THEN [min |-> 1, max |-> 100000, fallback |-> 20]
  ELSE IF field = <<"alert", "payments_failed_threshold">>
       THEN [min |-> 1, max |-> 100000, fallback |-> 10]
  ELSE [min |-> 1, max |-> 20, fallback |-> 5]

\* a number within the limits of a field
Within(x, field) ==
  /\ x.kind = "finite"
  /\ Limits(field).min * x.den <= x.num
  /\ x.num <= Limits(field).max * x.den

\* every updateSettings call awaiting its response carries values within the limits
PayloadsWithin ==
  \A i \in DOMAIN saveRequests : \A field \in DashboardFields :
     Within(saveRequests[i].value[field[1]][field[2]], field)

\* the dashboard form holds numbers within the limits
FormWithin ==
  \A field \in DashboardFields :
     /\ dashboardForm[field[1]][field[2]].type = "number"
     /\ Within(dashboardForm[field[1]][field[2]].value, field)

\* clamping a second time what a field of the dashboard form holds changes nothing
ClampIdempotent(field) ==
  \A limits \in {Limits(field)}, held \in {dashboardForm[field[1]][field[2]]} :
     \A once \in {clampNumber(held, limits.min, limits.max, limits.fallback)} :
        clampNumber(JsNumber(once), limits.min, limits.max, limits.fallback) = once

\* the fields of the dashboard form that a step changes
Changed(field) ==
  ~settingsMounted \/ dashboardForm'[field[1]][field[2]] # dashboardForm[field[1]][field[2]]

\* the step in which fetchSettings succeeds: the last of the four calls resolves
FetchSucceeds == settingsMounted /\ ~settingsFetch.settled /\ settingsFetch'.settled /\ ~AnyRejected'

\* the dashboard settings fetchSettings was answered with
FetchedDashboard == settingsFetch.answers["dashboard_config"].response

\* C25 as stated: every payload of saveDashboardSettings is within the limits, the
\* dashboard form is within the limits right after every successful fetchSettings, and
\* clampNumber is idempotent.
C25_DashboardWithinLimits ==
  [][/\ saveRequests' # saveRequests => PayloadsWithin'
     /\ FetchSucceeds => FormWithin'
     /\ \A field \in DashboardFields : Changed(field) => ClampIdempotent(field)']_vars

\* C25: every payload of saveDashboardSettings is within the limits, the dashboard
\* form is within the limits right after every successful fetchSettings that was
\* answered with dashboard settings, whatever their values, and clampNumber is
\* idempotent.
C25_FetchedDashboardWithinLimits ==
  [][/\ saveRequests' # saveRequests => PayloadsWithin'
     /\ (FetchSucceeds /\ FetchedDashboard'.has) => FormWithin'
     /\ \A field \in DashboardFields : Changed(field) => ClampIdempotent(field)']_vars

\* the settings were fetched with dashboard settings, 100001 was typed as the limit
\* of the product ranking, and the call of the save carries 20
C25_Witness ==
  /\ settingsMounted
  /\ settingsFetch.settled
  /\ FetchedDashboard.has
  /\ dashboardEdits = 1
  /\ saveRequests # <<>>
  /\ saveRequests[1].value.ranking.top_products_limit = Finite(20, 1)

\* a step in which an updatePassword call is made, and the call
IssuesPassword == Len(passwordRequests') > Len(passwordRequests)

PasswordCall == passwordRequests'[Len(passwordRequests')]

\* C26: an updatePassword call is made only in the step in which the confirmation is
\* accepted, with the old and the new password of a form whose three fields are filled
\* in and whose new password equals its repetition, and a declined confirmation makes
\* none; the token is removed and the browser sent to the login page in the step in
\* which the call resolves and in no other; when the call rejects the token and the
\* page stay and loading is false.
C26_ChangePassword ==
  [][/\ IssuesPassword =>
          /\ passwordConfirmations > 0
          /\ passwordConfirmations' = passwordConfirmations - 1
          /\ passwordForm.old # <<>> /\ passwordForm.new # <<>> /\ passwordForm.confirm # <<>>
          /\ passwordForm.new = passwordForm.confirm
          /\ PasswordCall = [old_password |-> passwordForm.old,
                             new_password |-> passwordForm.new]
     /\ \A confirmed \in BOOLEAN :
          (passwordConfirmations > 0 /\ changePasswordConfirmed(confirmed)) =>
             (IssuesPassword <=> confirmed)
     /\ (adminToken' # adminToken \/ location' # location) => PasswordResolved
     /\ PasswordResolved => ~adminToken' /\ location' = "/login"
     /\ PasswordRejected => adminToken' = adminToken /\ location' = location /\ ~settingsLoading']_vars

\* a first change of the password was rejected and the token kept; a second one, with
\* other passwords, was confirmed and awaits its response
C26_Witness ==
  /\ adminToken
  /\ location = "/settings"
  /\ pushed.n >= 1 /\ pushed.type = "error"
  /\ passwordRequests = <<[old_password |-> <<"a">>, new_password |-> <<"b">>]>>
  /\ passwordForm.confirm = <<"b">>
  /\ settingsLoading

====
